---- MODULE Spec2Model ----
(***************************************************************************)
(* StorageService (src/src/storage.js): the patient record store on top    *)
(* of localforage (primary backend), localStorage (fallback store) and an  *)
(* in-memory LRU cache.  Every asynchronous call is a task; a task step is *)
(* one backend request together with the synchronous continuation that    *)
(* runs when the request settles.                                          *)
(***************************************************************************)
EXTENDS Integers, Sequences, FiniteSets, TLC

VARIABLES store, local, cache, cacheAccessOrder, tasks, batch, lastWrite, recent,
          currentPin, deviceSalt, deviceId, dbPatients, dbAuditLogs, secureCall, lastSaved

\* SecureStorage and encryption.js: the PIN, localStorage 'device_salt', the
\* settings, patients and auditLogs tables of SecurePatientDB, the call in flight,
\* and (history) the record of the last save that resolved for each patientId
secureVars == <<currentPin, deviceSalt, deviceId, dbPatients, dbAuditLogs, secureCall, lastSaved>>

vars == <<store, local, cache, cacheAccessOrder, tasks, batch, lastWrite, recent,
          currentPin, deviceSalt, deviceId, dbPatients, dbAuditLogs, secureCall, lastSaved>>

(***************************************************************************)
(* Bounds of the model.                                                    *)
(***************************************************************************)
\* calls that race with each other
MaxTasks == 2
\* capacity of the LRU cache of the modelled instance (constructor config)
CACHE_SIZE == 2
\* largest metadata.accessCount a stored record reaches
MaxAccess == 1
\* largest number of backup-* keys in the backend
MaxBackups == 1

(***************************************************************************)
(* CONFIG                                                                  *)
(***************************************************************************)
RETRY_ATTEMPTS == 3
RETRY_DELAY == 1000
\* thresholds and usage ratios are in percent of the quota
STORAGE_WARNING_THRESHOLD == 80
STORAGE_ERROR_THRESHOLD == 95
BACKUP_ENABLED == TRUE
SCHEMA_VERSION == <<"1", ".", "0">>

(***************************************************************************)
(* JavaScript values.  A string is a sequence of one-character strings.    *)
(***************************************************************************)
Undef == [type |-> "undefined", val |-> <<>>]
Str(s) == [type |-> "string", val |-> s]
Num(s) == [type |-> "number", val |-> s]

\* truthiness of a scalar: undefined and '' are falsy
Truthy(v) == v.type # "undefined" /\ ~(v.type = "string" /\ v.val = <<>>)

\* the value of new Date().toISOString(): the model has one instant
Now == Str(<<"T">>)

NoMeta == [has |-> FALSE, lastModified |-> Undef, lastAccessed |-> Undef, accessCount |-> 0]

\* the value null (and the absent record)
Null ==
  [kind |-> "null", id |-> Undef, name |-> Undef, dateCreated |-> Undef,
   notes |-> Undef, language |-> Undef, gender |-> Undef,
   schemaVersion |-> Undef, metadata |-> NoMeta]

Patient(id, name, created, notes) ==
  [kind |-> "object", id |-> id, name |-> name, dateCreated |-> created,
   notes |-> notes, language |-> Undef, gender |-> Undef,
   schemaVersion |-> Undef, metadata |-> NoMeta]

\* the fields a caller supplies (everything but schemaVersion and metadata)
DataFields == {"id", "name", "dateCreated", "notes", "language", "gender"}

SameData(a, b) == a.kind = "object" /\ b.kind = "object" /\ \A f \in DataFields : a[f] = b[f]

AlnumChars ==
  {"a","b","c","d","e","f","g","h","i","j","k","l","m","n","o","p","q","r","s","t","u","v","w","x","y","z",
   "A","B","C","D","E","F","G","H","I","J","K","L","M","N","O","P","Q","R","S","T","U","V","W","X","Y","Z",
   "0","1","2","3","4","5","6","7","8","9"}

RECURSIVE TrimLeft(_)
TrimLeft(s) == IF s # <<>> /\ Head(s) = " " THEN TrimLeft(Tail(s)) ELSE s

RECURSIVE TrimRight(_)
TrimRight(s) == IF s # <<>> /\ s[Len(s)] = " " THEN TrimRight(SubSeq(s, 1, Len(s) - 1)) ELSE s

\* String.prototype.trim
Trim(s) == TrimRight(TrimLeft(s))

\* /^[a-zA-Z0-9]+$/.test(s)
IsAlnum(s) == s # <<>> /\ \A i \in 1..Len(s) : s[i] \in AlnumChars

\* `${v}` inside a template literal
TemplateStr(v) ==
  IF v.type = "undefined" THEN <<"undefined">> ELSE v.val

generateKey(patientId) == <<"patient-">> \o TemplateStr(patientId)

\* key.startsWith('patient-')
IsPatientKey(k) == k # <<>> /\ Head(k) = "patient-"

\* key.startsWith('backup-')
IsBackupKey(k) == k # <<>> /\ Head(k) = "backup-"

\* the guard at the head of save, load and delete
ValidPatientId(patientId) == Truthy(patientId) /\ patientId.type = "string"

optionalFields == {"notes", "language", "gender"}

\* "ok" or the VALIDATION_ERROR the validator throws
validatePatientData(data) ==
  IF data.kind # "object" THEN "VALIDATION_ERROR"
  ELSE IF ~Truthy(data.id) \/ data.id.type # "string" \/ Trim(data.id.val) = <<>> THEN "VALIDATION_ERROR"
  ELSE IF ~Truthy(data.name) \/ data.name.type # "string" \/ Trim(data.name.val) = <<>> THEN "VALIDATION_ERROR"
  ELSE IF ~Truthy(data.dateCreated) \/ data.dateCreated.type # "string" THEN "VALIDATION_ERROR"
  ELSE IF ~IsAlnum(Trim(data.id.val)) THEN "VALIDATION_ERROR"
  ELSE IF \E f \in optionalFields : data[f].type # "undefined" /\ data[f].type # "string" THEN "VALIDATION_ERROR"
  ELSE "ok"

\* "ok" or DATA_CORRUPTION
validateStoredData(data) ==
  IF data.kind # "object" THEN "DATA_CORRUPTION" ELSE "ok"

\* faulty variant: an access is not counted
enrichPatientDataNoCount(data, operation) ==
  [data EXCEPT
     !.schemaVersion = Str(SCHEMA_VERSION),
     !.metadata = [has |-> TRUE,
                   lastModified |-> IF operation = "save" THEN Now ELSE data.metadata.lastModified,
                   lastAccessed |-> Now,
                   accessCount |-> data.metadata.accessCount]]

enrichPatientData(data, operation) ==
  [data EXCEPT
     !.schemaVersion = Str(SCHEMA_VERSION),
     !.metadata = [has |-> TRUE,
                   lastModified |-> IF operation = "save" THEN Now ELSE data.metadata.lastModified,
                   lastAccessed |-> Now,
                   accessCount |-> data.metadata.accessCount + (IF operation = "access" THEN 1 ELSE 0)]]

(***************************************************************************)
(* JSON.stringify / JSON.parse of a record: the text is the list of the    *)
(* properties that are defined, in property order; undefined-valued        *)
(* properties are dropped, numbers are written as digits.                  *)
(***************************************************************************)
ScalarOrder == <<"id", "name", "dateCreated", "notes", "language", "gender", "schemaVersion">>

RECURSIVE JSONscalars(_, _)
JSONscalars(d, i) ==
  IF i > Len(ScalarOrder) THEN <<>>
  ELSE (IF d[ScalarOrder[i]].type = "undefined" THEN <<>>
        ELSE << <<ScalarOrder[i], d[ScalarOrder[i]].type, d[ScalarOrder[i]].val>> >>)
       \o JSONscalars(d, i + 1)

JSONmeta(m) ==
  IF ~m.has THEN <<>>
  ELSE (IF m.lastModified.type = "undefined" THEN <<>>
        ELSE << <<"metadata.lastModified", m.lastModified.type, m.lastModified.val>> >>)
       \o (IF m.lastAccessed.type = "undefined" THEN <<>>
           ELSE << <<"metadata.lastAccessed", m.lastAccessed.type, m.lastAccessed.val>> >>)
       \o << <<"metadata.accessCount", "number", <<ToString(m.accessCount)>> >> >>
       \o << <<"metadata", "object", <<>> >> >>

JSONstringify(d) ==
  IF d.kind = "null" THEN << <<"null", "null", <<>> >> >>
  ELSE JSONscalars(d, 1) \o JSONmeta(d.metadata)

\* the value of property name in the text, undefined when it is not there
JSONprop(text, name) ==
  IF \E i \in 1..Len(text) : text[i][1] = name
  THEN LET i == CHOOSE j \in 1..Len(text) : text[j][1] = name
       IN  [type |-> text[i][2], val |-> text[i][3]]
  ELSE Undef

JSONcount(text) ==
  IF \E i \in 1..Len(text) : text[i][1] = "metadata.accessCount"
  THEN LET digits == JSONprop(text, "metadata.accessCount").val[1]
       IN  CHOOSE n \in 0..99 : ToString(n) = digits
  ELSE 0

JSONparse(text) ==
  IF text = << <<"null", "null", <<>> >> >> THEN Null
  ELSE [kind |-> "object",
        id |-> JSONprop(text, "id"), name |-> JSONprop(text, "name"),
        dateCreated |-> JSONprop(text, "dateCreated"), notes |-> JSONprop(text, "notes"),
        language |-> JSONprop(text, "language"), gender |-> JSONprop(text, "gender"),
        schemaVersion |-> JSONprop(text, "schemaVersion"),
        metadata |-> IF \E i \in 1..Len(text) : text[i][1] = "metadata"
                     THEN [has |-> TRUE,
                           lastModified |-> JSONprop(text, "metadata.lastModified"),
                           lastAccessed |-> JSONprop(text, "metadata.lastAccessed"),
                           accessCount |-> JSONcount(text)]
                     ELSE NoMeta]

(***************************************************************************)
(* Key-value maps: the backend, localStorage and the cache Map are         *)
(* functions whose domain is the set of keys present.                      *)
(***************************************************************************)
Has(m, k) == k \in DOMAIN m
Put(m, k, v) == [x \in DOMAIN m \cup {k} |-> IF x = k THEN v ELSE m[x]]
Del(m, k) == [x \in DOMAIN m \ {k} |-> m[x]]
\* getItem: the stored value, null when the key is absent
Get(m, k) == IF Has(m, k) THEN m[k] ELSE Null
Empty == [x \in {} |-> Null]

SeqRemove(s, k) == SelectSeq(s, LAMBDA x : x # k)

\* indexOf + splice(index, 1): the first occurrence only
_removeFromCacheOrder(order, key) ==
  IF \E i \in 1..Len(order) : order[i] = key
  THEN LET i == CHOOSE j \in 1..Len(order) : order[j] = key /\ \A h \in 1..(j - 1) : order[h] # key
       IN  SubSeq(order, 1, i - 1) \o SubSeq(order, i + 1, Len(order))
  ELSE order

\* the eviction loop: pop the last key of the order and delete it from the Map
RECURSIVE Evict(_)
Evict(c) ==
  IF Cardinality(DOMAIN c.cache) > CACHE_SIZE /\ c.order # <<>>
  THEN Evict([cache |-> Del(c.cache, c.order[Len(c.order)]),
              order |-> SubSeq(c.order, 1, Len(c.order) - 1)])
  ELSE c

\* faulty variant: the entry is not inserted
_updateCacheForgets(c, key, data) == c

\* c is [cache, order]
_updateCache(c, key, data) ==
  Evict([cache |-> Put(c.cache, key, data),
         order |-> <<key>> \o (IF Has(c.cache, key) THEN _removeFromCacheOrder(c.order, key) ELSE c.order)])

\* faulty variant: a cache hit leaves the order as it was
_updateCacheAccessKeepsOrder(order, key) == order

_updateCacheAccess(order, key) == <<key>> \o _removeFromCacheOrder(order, key)

(***************************************************************************)
(* Tasks.  Slots 1..MaxTasks hold the calls of the application; the slots  *)
(* above them hold the items of the chunk a batch has in flight.  A task   *)
(* whose call has settled stays at pc "done" with its outcome until the    *)
(* caller takes it.                                                        *)
(***************************************************************************)
\* largest chunkSize option of a batch
MaxChunk == 2

Slots == 1..(MaxTasks + MaxChunk)
CallSlots == 1..MaxTasks
ItemSlot(j) == MaxTasks + j

IdleTask ==
  [op |-> "idle", pc |-> "idle", patientId |-> Undef, data |-> Null,
   backup |-> FALSE, useCache |-> FALSE, enriched |-> Null, loaded |-> Null,
   attempt |-> 0, invoked |-> 0, waited |-> <<>>, error |-> "none", failedAt |-> 0, okAt |-> 0,
   caught |-> "none", fallback |-> "none",
   result |-> "none", value |-> Null, emitted |-> {}, pending |-> {}, item |-> 0,
   via |-> "none", confirmed |-> FALSE]

NoBatch ==
  [active |-> FALSE, patients |-> <<>>, chunkSize |-> 0, i |-> 0, pending |-> 0,
   total |-> 0, successful |-> 0, failed |-> 0, errors |-> <<>>, progress |-> <<>>,
   attempted |-> {}, backendFailed |-> {}, usage |-> 0, result |-> "none",
   kind |-> "none", pc |-> "none", keys |-> <<>>, results |-> <<>>, via |-> "none",
   before |-> <<>>,
   query |-> [criteria |-> <<>>, limit |-> 0, offset |-> 0],
   answer |-> [done |-> FALSE, results |-> <<>>, total |-> 0, limit |-> 0, offset |-> 0]]

\* The state as one value, so that a handler is a function from state to state.
\* ok and ls are the environment of the step: whether the request to the primary
\* backend that settles in it succeeds, and whether localStorage is usable.
St(ok, ls) ==
  [store |-> store, local |-> local, cache |-> cache, order |-> cacheAccessOrder,
   tasks |-> tasks, batch |-> batch, lastWrite |-> lastWrite, recent |-> recent,
   ok |-> ok, ls |-> ls]

Becomes(s) ==
  /\ store' = s.store
  /\ local' = s.local
  /\ cache' = s.cache
  /\ cacheAccessOrder' = s.order
  /\ tasks' = s.tasks
  /\ batch' = s.batch
  /\ lastWrite' = s.lastWrite
  /\ recent' = s.recent
  /\ UNCHANGED secureVars

\* history: key is now the most recently accessed of the keys read or written
\* through the cache since the cache last lost an entry to a delete or a clear
Touch(s, key) == [s EXCEPT !.recent = <<key>> \o SeqRemove(@, key)]

Emit(tk, event) == [tk EXCEPT !.emitted = @ \cup {event}]

Key(tk) == generateKey(tk.patientId)

\* localStorage.setItem(key, JSON.stringify(data)); throws when the store is unusable
\* [ok, local]
_tryLocalStorageFallbackSave(loc, up, key, data) ==
  IF up THEN [ok |-> TRUE, local |-> Put(loc, key, JSONstringify(data))]
  ELSE [ok |-> FALSE, local |-> loc]

\* JSON.parse(localStorage.getItem(key)), null when absent or when the store throws
_tryLocalStorageFallbackLoad(loc, up, key) ==
  IF up /\ Has(loc, key) THEN JSONparse(loc[key]) ELSE Null

\* a call of _retryOperation begins
BeginRetry(tk, pc) ==
  [tk EXCEPT !.pc = pc, !.attempt = 1, !.invoked = 0, !.waited = <<>>, !.failedAt = 0, !.okAt = 0]

\* faulty variant: the ceiling is tested one attempt late
RetryGivesUpLate(attempt) == attempt > RETRY_ATTEMPTS

\* the catch of _retryOperation: TRUE when the error is rethrown
RetryGivesUp(attempt) == attempt >= RETRY_ATTEMPTS

RECURSIVE Pow2(_)
Pow2(n) == IF n = 0 THEN 1 ELSE 2 * Pow2(n - 1)

RetryDelayOf(attempt) == RETRY_DELAY * Pow2(attempt - 1)

\* the operation failed at the last attempt: its error is rethrown
RetryThrows(tk) == [tk EXCEPT !.invoked = @ + 1, !.failedAt = tk.attempt]

\* the operation succeeded: its result is returned
RetryReturns(tk) == [tk EXCEPT !.invoked = @ + 1, !.okAt = tk.attempt]

\* the operation failed and is tried again after the delay
RetryAgain(tk) ==
  [tk EXCEPT !.invoked = @ + 1, !.waited = Append(@, RetryDelayOf(tk.attempt)), !.attempt = @ + 1]

Min(a, b) == IF a < b THEN a ELSE b

\* What a catch block catches: "VALIDATION_ERROR" and "DATA_CORRUPTION" are the
\* service's own errors, "BACKEND" is the quota or unavailability error of the
\* primary backend.  error.code || 'UNKNOWN_ERROR':
ErrorCode(thrown) == IF thrown = "BACKEND" THEN "UNKNOWN_ERROR" ELSE thrown

\* _handleError: the error is logged and an 'error' event emitted
_handleError(tk, code) == [Emit(tk, "error") EXCEPT !.error = code]

\* the call settles: what stays of the task is what the caller can observe of it
Resolve(tk, result, value) ==
  [IdleTask EXCEPT !.op = tk.op, !.pc = "done", !.patientId = tk.patientId, !.data = tk.data,
                   !.item = tk.item, !.via = tk.via, !.emitted = tk.emitted, !.error = tk.error,
                   !.invoked = tk.invoked, !.failedAt = tk.failedAt, !.okAt = tk.okAt,
                   !.caught = tk.caught, !.fallback = tk.fallback, !.confirmed = tk.confirmed,
                   !.result = result, !.value = value]

(***************************************************************************)
(* saveMultiplePatients: the bookkeeping of the batch.                     *)
(***************************************************************************)
\* history: the items whose write to the backend failed on every retry
NoteItem(b, tk) ==
  [b EXCEPT !.backendFailed = IF tk.caught = "BACKEND" THEN @ \cup {tk.item} ELSE @]

\* faulty variant: a failed item is counted but its error is not recorded
CountItemDropsError(b, tk) ==
  IF tk.result = "true"
  THEN [NoteItem(b, tk) EXCEPT !.successful = @ + 1]
  ELSE [NoteItem(b, tk) EXCEPT !.failed = @ + 1]

\* the try/catch around one item's savePatientData: tk is the item's settled task
CountItem(b, tk) ==
  IF tk.result = "true"
  THEN [NoteItem(b, tk) EXCEPT !.successful = @ + 1]
  ELSE [NoteItem(b, tk) EXCEPT !.failed = @ + 1, !.errors = Append(@, tk.item)]

\* faulty variant: the catch rethrows without trying the fallback
savePatientDataCatchNoFallback(loc, ls, tk, thrown) ==
  [local |-> loc,
   task |-> Resolve(_handleError([tk EXCEPT !.caught = thrown], ErrorCode(thrown)), "throw", Null)]

\* the catch of savePatientData runs the fallback whatever was thrown: [local, task]
savePatientDataCatch(loc, ls, tk, thrown) ==
  LET f == _tryLocalStorageFallbackSave(loc, ls, Key(tk), tk.data)
      tc == [tk EXCEPT !.caught = thrown, !.fallback = IF f.ok THEN "save_ok" ELSE "save_failed"]
  IN  IF f.ok
      THEN [local |-> f.local, task |-> Resolve(Emit(tc, "fallback_save"), "true", Null)]
      ELSE [local |-> loc, task |-> Resolve(_handleError(tc, ErrorCode(thrown)), "throw", Null)]

\* _checkStorageQuota with usage percent of the quota in use.
\* The STORAGE_QUOTA_EXCEEDED it throws is caught by its own catch, so it
\* returns normally whatever the usage, having logged 'Failed to check storage
\* quota'; it emits a warning between the thresholds.
_checkStorageQuota(tk, usage) ==
  IF usage > STORAGE_ERROR_THRESHOLD THEN Emit(tk, "log_quota_check_failed")
  ELSE IF usage > STORAGE_WARNING_THRESHOLD THEN Emit(tk, "storageWarning")
  ELSE tk

\* savePatientData from the call to the request it first sends to the backend:
\* validation, metadata, quota check (navigator.storage.estimate() reports usage).
\* [local, task]; the task is at "L_get" (the read of _backupExistingData),
\* at "S_set" (the retried write) or settled.
savePatientDataEnter(loc, ls, patientId, data, backup, item, usage) ==
  LET tk == [IdleTask EXCEPT !.op = "save", !.patientId = patientId, !.data = data,
                             !.backup = backup, !.item = item]
  IN  IF ~ValidPatientId(patientId) \/ validatePatientData(data) # "ok"
      THEN savePatientDataCatch(loc, ls, tk, "VALIDATION_ERROR")
      ELSE LET tq == _checkStorageQuota([tk EXCEPT !.enriched = enrichPatientData(data, "save")], usage)
           IN  [local |-> loc,
                task |-> IF BACKUP_ENABLED /\ backup
                         THEN BeginRetry(tq, "L_get")
                         ELSE BeginRetry(tq, "S_set")]

RECURSIVE LaunchChunk(_)
RECURSIVE LaunchItems(_, _)

\* Promise.allSettled of the chunk has resolved: progress event, next chunk or the end
ChunkSettled(s) ==
  LET b == s.batch
      nb == [b EXCEPT !.progress = Append(@, Min(b.i + b.chunkSize, b.total)),
                      !.i = b.i + b.chunkSize]
  IN  IF nb.i < nb.total
      THEN LaunchChunk([s EXCEPT !.batch = nb])
      ELSE [s EXCEPT !.batch = [nb EXCEPT !.result = "resolved"]]

\* key.replace('patient-', '')
PatientIdOf(key) == Str(Tail(key))

\* loadAllPatients: item idx of the keys is entered in slot t.  Its
\* loadPatientData(patientId, {useCache: false}) has a non-empty string as id
\* and does not consult the cache: it begins with the retried read.
LaunchLoad(s, t, idx) ==
  [s EXCEPT !.tasks[t] = BeginRetry([IdleTask EXCEPT !.op = "load", !.item = idx,
                                               !.patientId = PatientIdOf(s.batch.keys[idx])],
                                    "L_get"),
            !.batch = [@ EXCEPT !.attempted = @ \cup {idx}, !.pending = @ + 1]]

\* chunk.map(...): the items are entered in order, item j of the chunk in slot ItemSlot(j);
\* an item that settles without waiting for the backend is counted at once
LaunchItems(s, j) ==
  LET b == s.batch
      idx == b.i + j
  IN  IF j > b.chunkSize \/ idx > b.total THEN s
      ELSE IF b.kind = "loadAll" THEN LaunchItems(LaunchLoad(s, ItemSlot(j), idx), j + 1)
      ELSE LET e == savePatientDataEnter(s.local, s.ls, b.patients[idx][1], b.patients[idx][2], FALSE, idx, b.usage)
               b1 == [b EXCEPT !.attempted = @ \cup {idx}]
           IN  LaunchItems(
                 IF e.task.pc = "done"
                 THEN [s EXCEPT !.local = e.local, !.batch = CountItem(b1, e.task)]
                 ELSE [s EXCEPT !.local = e.local, !.tasks[ItemSlot(j)] = e.task,
                                !.batch = [b1 EXCEPT !.pending = @ + 1]],
                 j + 1)

LaunchChunk(s) ==
  LET s1 == LaunchItems([s EXCEPT !.batch.pending = 0], 1)
  IN  IF s1.batch.pending = 0 THEN ChunkSettled(s1) ELSE s1

\* loadAllPatients: the { patientId, data } an item's loadPatientData fulfilled with
KeepResult(b, tk) == [b EXCEPT !.results = Put(@, tk.item, tk.value)]

\* faulty variant: the next chunk starts as soon as one item has settled
ItemSettledEager(s, tk) ==
  LET b == [(IF s.batch.kind = "loadAll" THEN KeepResult(s.batch, tk) ELSE CountItem(s.batch, tk))
              EXCEPT !.pending = @ - 1]
  IN  ChunkSettled([s EXCEPT !.batch = b])

\* an item's savePatientData or loadPatientData has settled
ItemSettled(s, tk) ==
  LET b == [(IF s.batch.kind = "loadAll" THEN KeepResult(s.batch, tk) ELSE CountItem(s.batch, tk))
              EXCEPT !.pending = @ - 1]
      s1 == [s EXCEPT !.batch = b]
  IN  IF b.pending = 0 THEN ChunkSettled(s1) ELSE s1

\* saveMultiplePatients(patients, {chunkSize}) up to its first await
saveMultiplePatientsEnter(s, patients, chunkSize, usage) ==
  LET b == [NoBatch EXCEPT !.active = TRUE, !.kind = "save", !.patients = patients,
                           !.chunkSize = chunkSize, !.total = Len(patients), !.usage = usage]
  IN  IF Len(patients) = 0
      THEN [s EXCEPT !.batch = [b EXCEPT !.result = "resolved"]]
      ELSE LaunchChunk([s EXCEPT !.batch = b])

\* the call in slot t settles as tk
Finish(s, t, tk) ==
  IF tk.item = 0
  THEN [s EXCEPT !.tasks[t] = tk]
  ELSE ItemSettled([s EXCEPT !.tasks[t] = IdleTask], tk)

(***************************************************************************)
(* loadPatientData, also as called by _backupExistingData                  *)
(***************************************************************************)
\* after _backupExistingData: the retried write or removal begins
AfterBackup(tk) ==
  IF tk.op = "save" THEN BeginRetry(tk, "S_set") ELSE BeginRetry(tk, "D_rm")

\* { ...existingData, ...updates }: a field of updates that is given replaces the
\* field of the existing record; updates carries no schemaVersion and no metadata
Merge(existingData, updates) ==
  [f \in DOMAIN existingData |->
     IF f \in DataFields /\ updates[f].type # "undefined" THEN updates[f] ELSE existingData[f]]

\* faulty variant: an update of a record that is not there saves the updates
updatePatientDataLoadedUpserts(s, t) ==
  LET tk == s.tasks[t]
      e == savePatientDataEnter(s.local, s.ls, tk.patientId, tk.data, tk.backup, 0, 50)
  IN  [s EXCEPT !.local = e.local,
                !.tasks[t] = [e.task EXCEPT !.via = "update", !.emitted = @ \cup tk.emitted]]

\* updatePatientData resumes after its await of loadPatientData, which returned
\* existingData (kept in loaded): not found, or savePatientData of the merged
\* record (its quota check below the thresholds); a rejection of that save is
\* handled once more by the catch of the update
updatePatientDataLoaded(s, t) ==
  LET tk == s.tasks[t]
      existingData == tk.loaded
  IN  IF existingData.kind # "object"
      THEN [s EXCEPT !.tasks[t] = Resolve(_handleError([tk EXCEPT !.caught = "VALIDATION_ERROR"],
                                                       "VALIDATION_ERROR"), "throw", Null)]
      ELSE LET e == savePatientDataEnter(s.local, s.ls, tk.patientId,
                                         Merge(existingData, tk.data), tk.backup, 0, 50)
           IN  [s EXCEPT !.local = e.local,
                         !.tasks[t] = [e.task EXCEPT !.via = "update",
                                                     !.emitted = @ \cup tk.emitted]]

\* loadPatientData returns value
LoadReturn(s, t, tk, value) ==
  IF tk.op = "load" THEN Finish(s, t, Resolve(tk, "value", value))
  ELSE IF tk.op = "update" THEN [s EXCEPT !.tasks[t] = [tk EXCEPT !.pc = "U_loaded", !.loaded = value]]
  ELSE IF value.kind = "object"
       THEN [s EXCEPT !.tasks[t] = [tk EXCEPT !.pc = "B_put", !.loaded = value]]
       ELSE [s EXCEPT !.tasks[t] = AfterBackup(tk)]

\* faulty variant: the catch rethrows when the fallback has no copy
loadPatientDataCatchRethrows(s, t, tk, thrown) ==
  LET fallbackData == _tryLocalStorageFallbackLoad(s.local, s.ls, Key(tk))
      tc == [tk EXCEPT !.caught = thrown,
                       !.fallback = IF fallbackData.kind = "object" THEN "load_hit" ELSE "load_miss"]
  IN  IF fallbackData.kind = "object"
      THEN LoadReturn(s, t, Emit(tc, "fallback_load"), fallbackData)
      ELSE IF tk.op = "load"
           THEN Finish(s, t, Resolve(_handleError(tc, ErrorCode(thrown)), "throw", Null))
           ELSE [s EXCEPT !.tasks[t] = AfterBackup(_handleError(tc, ErrorCode(thrown)))]

\* faulty variant: the catch returns null without reporting the error
loadPatientDataCatchSilent(s, t, tk, thrown) ==
  LET fallbackData == _tryLocalStorageFallbackLoad(s.local, s.ls, Key(tk))
      tc == [tk EXCEPT !.caught = thrown,
                       !.fallback = IF fallbackData.kind = "object" THEN "load_hit" ELSE "load_miss"]
  IN  IF fallbackData.kind = "object"
      THEN LoadReturn(s, t, Emit(tc, "fallback_load"), fallbackData)
      ELSE LoadReturn(s, t, tc, Null)

\* the catch of loadPatientData
loadPatientDataCatch(s, t, tk, thrown) ==
  LET fallbackData == _tryLocalStorageFallbackLoad(s.local, s.ls, Key(tk))
      tc == [tk EXCEPT !.caught = thrown,
                       !.fallback = IF fallbackData.kind = "object" THEN "load_hit" ELSE "load_miss"]
  IN  IF fallbackData.kind = "object"
      THEN LoadReturn(s, t, Emit(tc, "fallback_load"), fallbackData)
      ELSE LoadReturn(s, t, _handleError(tc, ErrorCode(thrown)), Null)

\* faulty variant: the cache is not consulted
loadPatientDataEnterNoCache(s, t, tk, useCache) ==
  IF ~ValidPatientId(tk.patientId) THEN loadPatientDataCatch(s, t, tk, "VALIDATION_ERROR")
  ELSE [s EXCEPT !.tasks[t] = BeginRetry(tk, "L_get")]

\* loadPatientData up to its first await
loadPatientDataEnter(s, t, tk, useCache) ==
  IF ~ValidPatientId(tk.patientId) THEN loadPatientDataCatch(s, t, tk, "VALIDATION_ERROR")
  ELSE IF useCache /\ Has(s.cache, Key(tk))
       THEN LoadReturn(Touch([s EXCEPT !.order = _updateCacheAccess(s.order, Key(tk))], Key(tk)),
                       t, tk, s.cache[Key(tk)])
       ELSE [s EXCEPT !.tasks[t] = BeginRetry(tk, "L_get")]

\* the getItem of the retried read settles
loadPatientDataGet(s, t) ==
  LET tk == s.tasks[t]
      key == Key(tk)
  IN  IF ~s.ok
      THEN IF RetryGivesUp(tk.attempt)
           THEN loadPatientDataCatch(s, t, RetryThrows(tk), "BACKEND")
           ELSE [s EXCEPT !.tasks[t] = RetryAgain(tk)]
      ELSE LET data == Get(s.store, key)
               tk1 == RetryReturns(tk)
           IN  IF data.kind = "null" THEN LoadReturn(s, t, tk1, Null)
               ELSE IF validateStoredData(data) # "ok"
                    THEN loadPatientDataCatch(s, t, tk1, "DATA_CORRUPTION")
                    ELSE LET c == _updateCache([cache |-> s.cache, order |-> s.order], key, data)
                         IN  Touch([s EXCEPT !.cache = c.cache, !.order = c.order,
                                             !.tasks[t] = [tk1 EXCEPT !.pc = "L_put", !.loaded = data]],
                                   key)

\* the setItem of the access metadata settles
loadPatientDataPut(s, t) ==
  LET tk == s.tasks[t]
  IN  IF ~s.ok THEN loadPatientDataCatch(s, t, tk, "BACKEND")
      ELSE LET updatedData == enrichPatientData(tk.loaded, "access")
           IN  LoadReturn([s EXCEPT !.store = Put(s.store, Key(tk), updatedData)], t,
                          Emit(tk, "load"), tk.loaded)

BackupKeys(st) == {k \in DOMAIN st : IsBackupKey(k)}

\* `backup-${patientId}-${Date.now()}`: every backup gets a time of its own
BackupKey(st, patientId) ==
  <<"backup-">> \o TemplateStr(patientId) \o <<"-", ToString(Cardinality(BackupKeys(st)) + 1)>>

\* _backupExistingData: the setItem of the backup settles; a failure is only logged
_backupExistingDataPut(s, t) ==
  LET tk == s.tasks[t]
  IN  [s EXCEPT !.store = IF s.ok THEN Put(s.store, BackupKey(s.store, tk.patientId), tk.loaded)
                          ELSE s.store,
                !.tasks[t] = AfterBackup([tk EXCEPT !.loaded = Null])]

\* _backupExistingData is called
BackupEnter(s, t, tk) == loadPatientDataEnter(s, t, tk, FALSE)

(***************************************************************************)
(* savePatientData                                                         *)
(***************************************************************************)
\* faulty variant: the record is written but the cache keeps its old entry
savePatientDataSetNoCache(s, t) ==
  LET tk == s.tasks[t]
      key == Key(tk)
  IN  IF ~s.ok
      THEN IF RetryGivesUp(tk.attempt)
           THEN LET c == savePatientDataCatch(s.local, s.ls, RetryThrows(tk), "BACKEND")
                IN  Finish([s EXCEPT !.local = c.local], t, c.task)
           ELSE [s EXCEPT !.tasks[t] = RetryAgain(tk)]
      ELSE Finish(Touch([s EXCEPT !.store = Put(s.store, key, tk.enriched), !.lastWrite = t], key),
                  t, Resolve(Emit(RetryReturns(tk), "save"), "true", Null))

\* the setItem of the retried write settles
savePatientDataSet(s, t) ==
  LET tk == s.tasks[t]
      key == Key(tk)
  IN  IF ~s.ok
      THEN IF RetryGivesUp(tk.attempt)
           THEN LET c == savePatientDataCatch(s.local, s.ls, RetryThrows(tk), "BACKEND")
                IN  Finish([s EXCEPT !.local = c.local], t, c.task)
           ELSE [s EXCEPT !.tasks[t] = RetryAgain(tk)]
      ELSE LET c == _updateCache([cache |-> s.cache, order |-> s.order], key, tk.enriched)
           IN  Finish(Touch([s EXCEPT !.store = Put(s.store, key, tk.enriched),
                                      !.cache = c.cache, !.order = c.order, !.lastWrite = t], key),
                      t, Resolve(Emit(RetryReturns(tk), "save"), "true", Null))

(***************************************************************************)
(* deletePatientData                                                       *)
(***************************************************************************)
deletePatientDataEnter(s, t, patientId, backup) ==
  LET tk == [IdleTask EXCEPT !.op = "delete", !.patientId = patientId, !.backup = backup]
  IN  IF ~ValidPatientId(patientId)
      THEN Finish(s, t, Resolve(_handleError([tk EXCEPT !.caught = "VALIDATION_ERROR"],
                                             "VALIDATION_ERROR"), "throw", Null))
      ELSE IF BACKUP_ENABLED /\ backup
           THEN BackupEnter(s, t, tk)
           ELSE [s EXCEPT !.tasks[t] = BeginRetry(tk, "D_rm")]

\* the removeItem of the retried removal settles
deletePatientDataRemove(s, t) ==
  LET tk == s.tasks[t]
      key == Key(tk)
  IN  IF ~s.ok
      THEN IF RetryGivesUp(tk.attempt)
           THEN Finish(s, t, Resolve(_handleError([RetryThrows(tk) EXCEPT !.caught = "BACKEND"],
                                                  ErrorCode("BACKEND")), "throw", Null))
           ELSE [s EXCEPT !.tasks[t] = RetryAgain(tk)]
      ELSE Finish([s EXCEPT !.store = Del(s.store, key), !.cache = Del(s.cache, key),
                            !.order = _removeFromCacheOrder(s.order, key), !.recent = <<>>],
                  t, Resolve(Emit(RetryReturns(tk), "delete"), "true", Null))

(***************************************************************************)
(* deleteAllPatients (options.backup false) and clearCache                 *)
(***************************************************************************)
\* faulty variant: the confirmation is not asked for
deleteAllPatientsEnterUnconfirmed(s, t, confirmed) ==
  [s EXCEPT !.tasks[t] = [IdleTask EXCEPT !.op = "deleteAll", !.confirmed = confirmed,
                                          !.pc = "DA_keys"]]

deleteAllPatientsEnter(s, t, confirmed) ==
  LET tk == [IdleTask EXCEPT !.op = "deleteAll", !.confirmed = confirmed]
  IN  IF ~confirmed
      THEN Finish(s, t, Resolve(_handleError(tk, "UNKNOWN_ERROR"), "throw", Null))
      ELSE [s EXCEPT !.tasks[t] = [tk EXCEPT !.pc = "DA_keys"]]

\* localforage.keys() settles: the removals of all patient keys are issued
deleteAllPatientsKeys(s, t) ==
  LET tk == s.tasks[t]
      patientKeys == {k \in DOMAIN s.store : IsPatientKey(k)}
  IN  IF ~s.ok THEN Finish(s, t, Resolve(_handleError(tk, "UNKNOWN_ERROR"), "throw", Null))
      ELSE IF patientKeys = {}
           THEN Finish([s EXCEPT !.cache = Empty, !.order = <<>>, !.recent = <<>>], t,
                       Resolve(Emit(tk, "deleteAll"), "true", Null))
           ELSE [s EXCEPT !.tasks[t] = [tk EXCEPT !.pc = "DA_rm", !.pending = patientKeys]]

\* one removeItem of the Promise.all settles; the call settles with the last of them
deleteAllPatientsRemove(s, t, key) ==
  LET tk0 == s.tasks[t]
      tk == [tk0 EXCEPT !.pending = @ \ {key},
                        !.error = IF s.ok THEN @ ELSE "UNKNOWN_ERROR"]
      s1 == IF s.ok THEN [s EXCEPT !.store = Del(s.store, key)] ELSE s
  IN  IF tk.pending # {} THEN [s1 EXCEPT !.tasks[t] = tk]
      ELSE IF tk.error # "none"
           THEN Finish(s1, t, Resolve(_handleError(tk, "UNKNOWN_ERROR"), "throw", Null))
           ELSE Finish([s1 EXCEPT !.cache = Empty, !.order = <<>>, !.recent = <<>>], t,
                       Resolve(Emit(tk, "deleteAll"), "true", Null))

clearCache(s) == [s EXCEPT !.cache = Empty, !.order = <<>>, !.recent = <<>>]

(***************************************************************************)
(* Inputs                                                                  *)
(***************************************************************************)
P1 == Str(<<"p", "1">>)
P2 == Str(<<"p", "2">>)
P3 == Str(<<"p", "3">>)
P4 == Str(<<"p", "4">>)
Ann == Str(<<"A", "n", "n">>)
Bob == Str(<<"B", "o", "b">>)
Day == Str(<<"D">>)

\* records that fail _validatePatientData, one for each of its checks
NoId == Patient(Undef, Ann, Day, Undef)
BadId == Patient(Str(<<"p", "-", "1">>), Ann, Day, Undef)
BlankName == Patient(P1, Str(<<" ">>), Day, Undef)
NoDate == Patient(P1, Ann, Undef, Undef)
BadNotes == Patient(P1, Ann, Day, Num(<<"4", "2">>))
InvalidRecords == {NoId, BadId, BlankName, NoDate, BadNotes}

\* usage of the quota in percent, as navigator.storage.estimate() reports it
Usages == {50, 90, 99}

(***************************************************************************)
(* Actions: the calls                                                      *)
(***************************************************************************)
Idle(t) == tasks[t].op = "idle"

(***************************************************************************)
(* loadAllPatients, exportPatients, importPatients                         *)
(***************************************************************************)
\* options.chunkSize || 50 of saveMultiplePatients, || 100 of loadAllPatients
DefaultSaveChunk == 50
DefaultLoadChunk == 100

\* localforage.keys() lists the keys in key order
KeyOrder == <<generateKey(P1), generateKey(P2), generateKey(P3), generateKey(P4)>>

\* keys.filter(key => key.startsWith('patient-'))
PatientKeys(st) == SelectSeq(KeyOrder, LAMBDA k : Has(st, k) /\ IsPatientKey(k))

\* loadAllPatients(options) up to its first await, localforage.keys()
loadAllPatientsEnter(s, chunkSize) ==
  [s EXCEPT !.batch = [NoBatch EXCEPT !.active = TRUE, !.kind = "loadAll", !.pc = "keys",
                                      !.chunkSize = chunkSize]]

\* localforage.keys() settles: the catch rethrows its failure, else the first chunk starts
loadAllPatientsKeys(s) ==
  LET b == [s.batch EXCEPT !.pc = "chunks"]
      patientKeys == PatientKeys(s.store)
  IN  IF ~s.ok THEN [s EXCEPT !.batch = [b EXCEPT !.result = "rejected"]]
      ELSE IF Len(patientKeys) = 0 THEN [s EXCEPT !.batch = [b EXCEPT !.result = "resolved"]]
      ELSE LaunchChunk([s EXCEPT !.batch = [b EXCEPT !.keys = patientKeys,
                                                     !.total = Len(patientKeys)]])

\* the patients object loadAllPatients returns, as Object.entries lists it:
\* the fulfilled items whose data is not null, in the order of the keys
Patients(b) ==
  LET found == SelectSeq([i \in 1..b.total |-> i],
                         LAMBDA i : Has(b.results, i) /\ b.results[i].kind = "object")
  IN  [n \in 1..Len(found) |-> <<PatientIdOf(b.keys[found[n]]), b.results[found[n]]>>]

\* ({ id, ...data }): the id of the entry unless data has an id of its own
ExportEntry(id, data) == IF data.id.type = "undefined" THEN [data EXCEPT !.id = id] ELSE data

\* exportData.patients of exportPatients, from the patients its loadAllPatients returned
PatientArray(b) == [n \in 1..Len(Patients(b)) |-> ExportEntry(Patients(b)[n][1], Patients(b)[n][2])]

\* importData.patients.map(patient => ({ id: patient.id, data: patient }))
PatientsToSave(importData) == [n \in 1..Len(importData) |-> <<importData[n].id, importData[n]>>]

\* history: what loadAllPatients returns of the store st, the backend answering
Snapshot(st) ==
  [n \in 1..Len(PatientKeys(st)) |-> <<PatientIdOf(PatientKeys(st)[n]), st[PatientKeys(st)[n]]>>]

\* exportPatients(): loadAllPatients() with its default chunk size
exportPatientsEnter(s) ==
  [loadAllPatientsEnter(s, DefaultLoadChunk) EXCEPT !.batch.via = "export",
                                                    !.batch.before = Snapshot(s.store)]

\* importPatients(importData): saveMultiplePatients(patientsToSave, {})
importPatientsEnter(s, importData, usage) ==
  [saveMultiplePatientsEnter(s, PatientsToSave(importData), DefaultSaveChunk, usage)
     EXCEPT !.batch.via = "import", !.batch.before = s.batch.before]

BackupsPlanned ==
  Cardinality(BackupKeys(store))
  + Cardinality({t \in Slots : tasks[t].backup /\ tasks[t].pc \in {"L_get", "L_put", "B_put"}})

Save(t, patientId, data, backup, usage) ==
  /\ Idle(t)
  /\ backup => BackupsPlanned < MaxBackups
  /\ \E ls \in BOOLEAN :
       LET e == savePatientDataEnter(local, ls, patientId, data, backup, 0, usage)
       IN  Becomes(Finish([St(TRUE, ls) EXCEPT !.local = e.local], t, e.task))

Load(t, patientId, useCache) ==
  /\ Idle(t)
  /\ \E ls \in BOOLEAN :
       Becomes(loadPatientDataEnter(St(TRUE, ls), t,
                 [IdleTask EXCEPT !.op = "load", !.patientId = patientId, !.useCache = useCache],
                 useCache))

\* updatePatientData(patientId, updates, {backup})
Update(t, patientId, updates, backup) ==
  /\ Idle(t)
  /\ backup => BackupsPlanned < MaxBackups
  /\ \E ls \in BOOLEAN :
       Becomes(loadPatientDataEnter(St(TRUE, ls), t,
                 [IdleTask EXCEPT !.op = "update", !.via = "update", !.patientId = patientId,
                                  !.data = updates, !.backup = backup, !.useCache = TRUE],
                 TRUE))

\* the update resumes with what its loadPatientData returned
UpdateLoaded(t) ==
  /\ tasks[t].pc = "U_loaded"
  /\ \E ls \in BOOLEAN : Becomes(updatePatientDataLoaded(St(TRUE, ls), t))

Delete(t, patientId, backup) ==
  /\ Idle(t)
  /\ backup => BackupsPlanned < MaxBackups
  /\ Becomes(deletePatientDataEnter(St(TRUE, TRUE), t, patientId, backup))

DeleteAll(t, confirmed) ==
  /\ Idle(t)
  /\ Becomes(deleteAllPatientsEnter(St(TRUE, TRUE), t, confirmed))

SaveMultiple(patients, chunkSize, usage) ==
  /\ ~batch.active
  /\ \A t \in Slots \ CallSlots : Idle(t)
  /\ \E ls \in BOOLEAN : Becomes(saveMultiplePatientsEnter(St(TRUE, ls), patients, chunkSize, usage))

(***************************************************************************)
(* searchPatients                                                          *)
(***************************************************************************)
UpperCase == <<"A","B","C","D","E","F","G","H","I","J","K","L","M","N","O","P","Q","R","S","T","U","V","W","X","Y","Z">>
LowerCase == <<"a","b","c","d","e","f","g","h","i","j","k","l","m","n","o","p","q","r","s","t","u","v","w","x","y","z">>

\* String.prototype.toLowerCase, character by character
toLowerCase(chars) ==
  [i \in 1..Len(chars) |->
     IF \E k \in 1..26 : UpperCase[k] = chars[i]
     THEN LowerCase[CHOOSE k \in 1..26 : UpperCase[k] = chars[i]]
     ELSE chars[i]]

\* String.prototype.includes
includes(chars, part) ==
  \E i \in 0..(Len(chars) - Len(part)) : SubSeq(chars, i + 1, i + Len(part)) = part

\* _matchesCriteria for criteria whose values are not objects: criteria is the
\* list Object.entries(criteria) of <<field, value>>; a string matches a string
\* field that contains it whatever the case, any other value must be identical
_matchesCriteria(data, criteria) ==
  \A n \in 1..Len(criteria) :
    LET field == criteria[n][1]
        value == criteria[n][2]
    IN  IF data[field].type = "string" /\ value.type = "string"
        THEN includes(toLowerCase(data[field].val), toLowerCase(value.val))
        ELSE data[field] = value

\* results.push({ id: patientId, ...data })
SearchEntry(patientId, data) == IF data.id.type = "undefined" THEN [data EXCEPT !.id = patientId] ELSE data

RECURSIVE searchLoopStopsAtLimit(_, _, _, _, _, _)
\* faulty variant: the loop stops at limit matches, forgetting the offset
searchLoopStopsAtLimit(entries, n, criteria, limit, offset, results) ==
  IF n > Len(entries) THEN results
  ELSE LET r == IF _matchesCriteria(entries[n][2], criteria)
                THEN Append(results, SearchEntry(entries[n][1], entries[n][2]))
                ELSE results
       IN  IF Len(r) >= limit THEN r
           ELSE searchLoopStopsAtLimit(entries, n + 1, criteria, limit, offset, r)

RECURSIVE searchLoop(_, _, _, _, _, _)
\* the for loop of searchPatients from entry n on: the matches are collected
\* in order until there are limit + offset of them
searchLoop(entries, n, criteria, limit, offset, results) ==
  IF n > Len(entries) THEN results
  ELSE LET r == IF _matchesCriteria(entries[n][2], criteria)
                THEN Append(results, SearchEntry(entries[n][1], entries[n][2]))
                ELSE results
       IN  IF Len(r) >= limit + offset THEN r
           ELSE searchLoop(entries, n + 1, criteria, limit, offset, r)

\* Array.prototype.slice(from, to) for 0 <= from <= to
slice(a, from, to) == SubSeq(a, from + 1, Min(to, Len(a)))

\* searchPatients(criteria, {limit, offset}) up to its await of loadAllPatients();
\* an option that is 0 is an option not given
searchPatientsEnter(s, criteria, limit, offset) ==
  [loadAllPatientsEnter(s, DefaultLoadChunk) EXCEPT
     !.batch.via = "search",
     !.batch.query = [criteria |-> criteria, limit |-> limit, offset |-> offset]]

\* searchPatients after loadAllPatients() settled: the page of the matches, or
\* the empty answer of the catch
searchPatientsLoaded(s) ==
  LET b == s.batch
      limit == IF b.query.limit = 0 THEN 100 ELSE b.query.limit
      offset == b.query.offset
      results == searchLoop(Patients(b), 1, b.query.criteria, limit, offset, <<>>)
  IN  [s EXCEPT !.batch.answer =
         IF b.result = "rejected"
         THEN [done |-> TRUE, results |-> <<>>, total |-> 0, limit |-> 0, offset |-> 0]
         ELSE [done |-> TRUE, results |-> slice(results, offset, offset + limit),
               total |-> Len(results), limit |-> limit, offset |-> offset]]

\* searchPatients(criteria, {limit, offset}); the slots hold every record in one chunk
Search(criteria, limit, offset) ==
  /\ ~batch.active
  /\ \A t \in Slots \ CallSlots : Idle(t)
  /\ Len(PatientKeys(store)) <= MaxChunk
  /\ Becomes(searchPatientsEnter(St(TRUE, TRUE), criteria, limit, offset))

\* the loadAllPatients() of the search has settled
SearchLoaded ==
  /\ batch.via = "search" /\ batch.result # "none" /\ ~batch.answer.done
  /\ Becomes(searchPatientsLoaded(St(TRUE, TRUE)))

\* loadAllPatients({chunkSize})
LoadAll(chunkSize) ==
  /\ ~batch.active
  /\ \A t \in Slots \ CallSlots : Idle(t)
  /\ Becomes(loadAllPatientsEnter(St(TRUE, TRUE), chunkSize))

LoadAllKeys ==
  /\ batch.pc = "keys"
  /\ \E ok \in BOOLEAN : Becomes(loadAllPatientsKeys(St(ok, TRUE)))

\* exportPatients(); the slots hold every record in one chunk
Export ==
  /\ ~batch.active
  /\ \A t \in Slots \ CallSlots : Idle(t)
  /\ Len(PatientKeys(store)) <= MaxChunk
  /\ Becomes(exportPatientsEnter(St(TRUE, TRUE)))

\* importPatients(exportData) of the exportData the export resolved with
Import(usage) ==
  /\ batch.kind = "loadAll" /\ batch.via = "export" /\ batch.result = "resolved"
  /\ \E ls \in BOOLEAN : Becomes(importPatientsEnter(St(TRUE, ls), PatientArray(batch), usage))

ClearCache ==
  /\ cache # Empty
  /\ Becomes(clearCache(St(TRUE, TRUE)))

\* the caller takes the outcome of a settled call
Return(t) ==
  /\ tasks[t].pc = "done"
  /\ tasks' = [tasks EXCEPT ![t] = IdleTask]
  /\ UNCHANGED <<store, local, cache, cacheAccessOrder, batch, lastWrite, recent>>
  /\ UNCHANGED secureVars

(***************************************************************************)
(* Actions: the steps of the calls in flight.  The request that settles    *)
(* succeeds or fails (ok), and localStorage is usable or throws (ls).      *)
(***************************************************************************)
GetItem(t) ==
  /\ tasks[t].pc = "L_get"
  /\ \E ok, ls \in BOOLEAN :
       /\ ok => Get(store, Key(tasks[t])).metadata.accessCount < MaxAccess
       /\ Becomes(loadPatientDataGet(St(ok, ls), t))

PutAccess(t) ==
  /\ tasks[t].pc = "L_put"
  /\ \E ok, ls \in BOOLEAN : Becomes(loadPatientDataPut(St(ok, ls), t))

BackupPut(t) ==
  /\ tasks[t].pc = "B_put"
  /\ \E ok \in BOOLEAN : Becomes(_backupExistingDataPut(St(ok, TRUE), t))

SetItem(t) ==
  /\ tasks[t].pc = "S_set"
  /\ \E ok, ls \in BOOLEAN : Becomes(savePatientDataSet(St(ok, ls), t))

RemoveItem(t) ==
  /\ tasks[t].pc = "D_rm"
  /\ \E ok \in BOOLEAN : Becomes(deletePatientDataRemove(St(ok, TRUE), t))

DeleteAllKeys(t) ==
  /\ tasks[t].pc = "DA_keys"
  /\ \E ok \in BOOLEAN : Becomes(deleteAllPatientsKeys(St(ok, TRUE), t))

DeleteAllRemove(t) ==
  /\ tasks[t].pc = "DA_rm"
  /\ \E key \in tasks[t].pending, ok \in BOOLEAN :
       Becomes(deleteAllPatientsRemove(St(ok, TRUE), t, key))

(***************************************************************************)
(* SecureStorage (Dexie database SecurePatientDB) and encryption.js        *)
(***************************************************************************)
\* static currentPin = null
NoPin == "null"

SecureIds == {"a", "b"}

\* no call of SecureStorage in flight
NoCall ==
  [op |-> "idle", pc |-> "idle", patientId |-> "", record |-> Null, pinSet |-> FALSE,
   encrypted |-> <<>>, result |-> "none", error |-> "", value |-> Null, touched |-> FALSE]

SecureInit ==
  /\ currentPin = NoPin
  /\ deviceSalt = 0
  /\ deviceId = FALSE
  /\ dbPatients = <<>>
  /\ dbAuditLogs = <<>>
  /\ secureCall = NoCall
  /\ lastSaved = [id \in SecureIds |-> Null]

\* the record Ann or Bob of id as the service stores it, read count times
Stored(id, name, count) ==
  [enrichPatientData(Patient(id, name, Day, Undef), "save") EXCEPT !.metadata.accessCount = count]

Init ==
  /\ store = Empty
  /\ local = Empty
  /\ cache = Empty
  /\ cacheAccessOrder = <<>>
  /\ tasks = [t \in Slots |-> IdleTask]
  /\ batch = NoBatch
  /\ lastWrite = 0
  /\ recent = <<>>
  /\ SecureInit

(***************************************************************************)
(* Spec: the calls of one caller, one after the other, on a backend and a  *)
(* localStorage that may fail.                                             *)
(***************************************************************************)
SaveInputs ==
  {<<P1, Patient(P1, Ann, Day, Undef)>>, <<P1, Patient(P1, Bob, Day, Undef)>>,
   <<Undef, Patient(P1, Ann, Day, Undef)>>, <<P1, BlankName>>}

\* P2 is loaded but never saved
LoadInputs == {P1, P2, Undef}

Next ==
  \/ \E in \in SaveInputs, backup \in BOOLEAN, usage \in {50, 99} : Save(1, in[1], in[2], backup, usage)
  \/ \E patientId \in LoadInputs, useCache \in BOOLEAN : Load(1, patientId, useCache)
  \/ \E patientId \in {P1, Undef}, backup \in BOOLEAN : Delete(1, patientId, backup)
  \/ Return(1)
  \/ GetItem(1)
  \/ PutAccess(1)
  \/ BackupPut(1)
  \/ SetItem(1)
  \/ RemoveItem(1)

Spec == Init /\ [][Next]_vars

(***************************************************************************)
(* Properties of Spec                                                      *)
(***************************************************************************)
\* what loadPatientData(patientId) returns when called in the current state
\* and answered from the cache: the settled task, or a task still in flight
LoadNow(patientId) ==
  loadPatientDataEnter(St(TRUE, TRUE), 1,
    [IdleTask EXCEPT !.op = "load", !.patientId = patientId, !.useCache = TRUE], TRUE).tasks[1]

\* the backend and the cache hold r under the key of patientId, and a load returns it
Held(patientId, r) ==
  LET key == generateKey(patientId)
  IN  /\ Has(store, key) /\ SameData(store[key], r)
      /\ Has(cache, key) /\ SameData(cache[key], r)
      /\ LoadNow(patientId).pc = "done"
      /\ LoadNow(patientId).result = "value"
      /\ SameData(LoadNow(patientId).value, r)

SavedTrue(t) == tasks[t].op = "save" /\ tasks[t].pc = "done" /\ tasks[t].result = "true"

\* C1 as stated: whenever savePatientData(id, r) has resolved true, the backend
\* and the cache hold r under the key of id and the load that follows returns r.
C1_SavedTrueIsHeld ==
  \A t \in CallSlots : SavedTrue(t) => Held(tasks[t].patientId, tasks[t].data)

\* C1 amended: whenever savePatientData(id, r) has resolved true after emitting
\* 'save' (through the write to the primary backend, not through the
\* localStorage fallback), the backend and the cache hold r under the key of
\* id and the load that follows returns r.
C1_SavedByPrimaryIsHeld ==
  \A t \in CallSlots :
    SavedTrue(t) /\ "save" \in tasks[t].emitted => Held(tasks[t].patientId, tasks[t].data)

C1_Witness ==
  \E t \in CallSlots :
    /\ SavedTrue(t) /\ "save" \in tasks[t].emitted
    /\ tasks[t].data.name = Bob
    /\ Held(tasks[t].patientId, tasks[t].data)

\* the step is a call of savePatientData whose record fails the write validation
InvalidSaveCalled(t) ==
  /\ tasks[t].op = "idle"
  /\ tasks'[t].op = "save"
  /\ ValidPatientId(tasks'[t].patientId)
  /\ validatePatientData(tasks'[t].data) # "ok"

\* C2: a savePatientData whose record fails the write validation rejects with a
\* VALIDATION_ERROR and leaves the backend, localStorage and the cache unchanged.
C2_InvalidSaveRejected ==
  [][\A t \in CallSlots :
       InvalidSaveCalled(t) =>
         /\ tasks'[t].pc = "done" /\ tasks'[t].result = "throw"
         /\ tasks'[t].caught = "VALIDATION_ERROR"
         /\ store' = store /\ local' = local
         /\ cache' = cache /\ cacheAccessOrder' = cacheAccessOrder]_vars

\* C3: the fallback store is written by save or read by load only after the
\* primary backend raised an error; a validation or data-corruption error
\* never leads to a fallback read or write.
C3_FallbackOnlyOnBackendError ==
  \A t \in CallSlots :
    tasks[t].fallback \in {"save_ok", "load_hit"} => tasks[t].caught = "BACKEND"

\* C8: _retryOperation invokes the operation at least once and at most
\* RETRY_ATTEMPTS times, has waited RETRY_DELAY * 2^(k-1) before attempt k+1,
\* returns at the first attempt that succeeds, and rethrows the error of the
\* last attempt once RETRY_ATTEMPTS attempts have failed.
C8_BoundedBackoff ==
  \A t \in CallSlots :
    LET tk == tasks[t]
    IN  /\ tk.pc \in {"L_get", "S_set", "D_rm"} =>
             /\ tk.attempt \in 1..RETRY_ATTEMPTS
             /\ tk.invoked = tk.attempt - 1
             /\ tk.waited = [k \in 1..(tk.attempt - 1) |-> RETRY_DELAY * 2^(k - 1)]
        /\ tk.invoked <= RETRY_ATTEMPTS
        /\ tk.okAt # 0 => tk.invoked = tk.okAt /\ tk.invoked >= 1
        /\ tk.failedAt # 0 => tk.invoked = RETRY_ATTEMPTS /\ tk.failedAt = RETRY_ATTEMPTS
        /\ tk.pc = "done" /\ tk.invoked > 0 => (tk.okAt # 0) # (tk.failedAt # 0)

C8_Witness ==
  \E t \in CallSlots :
    /\ tasks[t].pc = "done" /\ tasks[t].op = "delete"
    /\ tasks[t].failedAt = RETRY_ATTEMPTS /\ tasks[t].result = "throw"

\* the write to the backend failed on every retry
WriteExhausted(t) ==
  tasks[t].op = "save" /\ tasks[t].pc = "done" /\ tasks[t].failedAt = RETRY_ATTEMPTS

\* C9: when every retry of the backend write fails, savePatientData tries the
\* fallback before raising: with the fallback written it resolves true, has
\* emitted 'fallback' and no 'save', and localStorage holds the record; it
\* rejects, with the backend's error, only when the fallback write failed too.
C9_FallbackBeforeRaising ==
  \A t \in CallSlots :
    WriteExhausted(t) =>
      /\ tasks[t].fallback \in {"save_ok", "save_failed"}
      /\ tasks[t].fallback = "save_ok" =>
           /\ tasks[t].result = "true"
           /\ "fallback_save" \in tasks[t].emitted /\ "save" \notin tasks[t].emitted
           /\ Get(local, Key(tasks[t])) = JSONstringify(tasks[t].data)
      /\ tasks[t].fallback = "save_failed" =>
           /\ tasks[t].result = "throw" /\ tasks[t].caught = "BACKEND"
           /\ "save" \notin tasks[t].emitted

C9_Witness ==
  \E t \in CallSlots :
    /\ WriteExhausted(t) /\ tasks[t].result = "true"
    /\ "fallback_save" \in tasks[t].emitted
    /\ SameData(JSONparse(Get(local, Key(tasks[t]))), tasks[t].data)

\* the read of the backend failed on every retry and the fallback had no copy
ReadExhausted(t) ==
  /\ tasks[t].op = "load" /\ tasks[t].pc = "done"
  /\ tasks[t].failedAt = RETRY_ATTEMPTS /\ tasks[t].fallback = "load_miss"

AllIds == <<P1, P2, P3, P4>>

\* one id more than the cache holds
CacheIds == {AllIds[i] : i \in 1..Min(Len(AllIds), CACHE_SIZE + 1)}

NextCache ==
  \/ \E id \in CacheIds : Save(1, id, Patient(id, Ann, Day, Undef), FALSE, 50)
  \/ \E id \in CacheIds, useCache \in BOOLEAN : Load(1, id, useCache)
  \/ \E id \in CacheIds : Delete(1, id, FALSE)
  \/ DeleteAll(1, TRUE)
  \/ ClearCache
  \/ Return(1)
  \/ GetItem(1)
  \/ PutAccess(1)
  \/ SetItem(1)
  \/ RemoveItem(1)
  \/ DeleteAllKeys(1)
  \/ DeleteAllRemove(1)

SpecCache == Init /\ [][NextCache]_vars

\* the n most recently accessed keys
MostRecent(n) == {recent[i] : i \in 1..Min(n, Len(recent))}

\* C4: after any sequence of save, load, delete, deleteAll and clearCache the
\* cache holds at most CACHE_SIZE entries and its access order lists exactly
\* its keys; the most recently accessed keys are cached, and once CACHE_SIZE
\* or more distinct ids have been accessed the cache holds exactly the
\* CACHE_SIZE most recently accessed of them.
C4_CacheHoldsMostRecent ==
  /\ Cardinality(DOMAIN cache) <= CACHE_SIZE
  /\ Len(cacheAccessOrder) = Cardinality(DOMAIN cache)
  /\ {cacheAccessOrder[i] : i \in 1..Len(cacheAccessOrder)} = DOMAIN cache
  /\ MostRecent(CACHE_SIZE) \subseteq DOMAIN cache
  /\ Len(recent) >= CACHE_SIZE => DOMAIN cache = MostRecent(CACHE_SIZE)

\* more ids than the cache holds have been loaded, and the oldest was evicted
C4_Witness ==
  /\ Len(recent) > CACHE_SIZE
  /\ Cardinality(DOMAIN cache) = CACHE_SIZE
  /\ recent[Len(recent)] \notin DOMAIN cache
  /\ tasks[1].op = "load" /\ tasks[1].pc = "done" /\ "load" \in tasks[1].emitted

(***************************************************************************)
(* SpecRace: every caller saves a record of its own under the same id, the *)
(* calls overlapping in every way their awaits allow.  The settled calls   *)
(* stay settled.                                                           *)
(***************************************************************************)
Cy == Str(<<"C", "y">>)

\* the record caller t saves
RaceData(t) == Patient(P1, IF t = 1 THEN Ann ELSE Bob, Day, Undef)

\* the id is new, or holds an older record
InitRace ==
  /\ store \in {Empty, Put(Empty, generateKey(P1), Stored(P1, Cy, 0))}
  /\ local = Empty
  /\ cache = Empty
  /\ cacheAccessOrder = <<>>
  /\ tasks = [t \in Slots |-> IdleTask]
  /\ batch = NoBatch
  /\ lastWrite = 0
  /\ recent = <<>>
  /\ SecureInit

NextRace ==
  \E t \in CallSlots :
    \/ \E backup \in BOOLEAN : Save(t, P1, RaceData(t), backup, 50)
    \/ GetItem(t)
    \/ PutAccess(t)
    \/ BackupPut(t)
    \/ SetItem(t)

SpecRace == InitRace /\ [][NextRace]_vars

\* every call has completed: it resolved true
AllSaved ==
  \A t \in CallSlots : tasks[t].op = "save" /\ tasks[t].pc = "done" /\ tasks[t].result = "true"

\* C5 as stated: once the concurrent saves of one id have all completed, the
\* backend holds the record of the call that wrote last, in full, and the
\* cache entry of the id equals the record the backend holds.
C5_LastWriteWins ==
  AllSaved =>
    /\ lastWrite \in CallSlots
    /\ Has(store, generateKey(P1))
    /\ SameData(store[generateKey(P1)], tasks[lastWrite].data)
    /\ Has(cache, generateKey(P1))
    /\ cache[generateKey(P1)] = store[generateKey(P1)]

\* C5 amended: once the concurrent saves of one id have all completed through
\* the write to the primary backend (each emitted 'save', none resolved by the
\* localStorage fallback), the backend holds the record of the
\* call that wrote last, in full, and the cache entry equals that record.
C5_LastPrimaryWriteWins ==
  AllSaved /\ (\A t \in CallSlots : "save" \in tasks[t].emitted) =>
    /\ lastWrite \in CallSlots
    /\ Has(store, generateKey(P1))
    /\ SameData(store[generateKey(P1)], tasks[lastWrite].data)
    /\ Has(cache, generateKey(P1))
    /\ cache[generateKey(P1)] = store[generateKey(P1)]

\* both saves went through, the first caller's write landing last after its
\* backup of the older record
C5_Witness ==
  /\ AllSaved /\ \A t \in CallSlots : "save" \in tasks[t].emitted
  /\ lastWrite = 1
  /\ BackupKeys(store) # {}
  /\ SameData(store[generateKey(P1)], RaceData(1))
  /\ cache[generateKey(P1)] = store[generateKey(P1)]

(***************************************************************************)
(* SpecBatch: one saveMultiplePatients over a list of valid and invalid    *)
(* items, in chunks, on a backend and a localStorage that may fail.        *)
(***************************************************************************)
\* longest list of a batch
MaxBatch == 3

BatchItems ==
  {<<P1, Patient(P1, Ann, Day, Undef)>>, <<P2, Patient(P2, Bob, Day, Undef)>>,
   <<P3, Patient(P3, Str(<<" ">>), Day, Undef)>>}

BatchLists == UNION {[1..n -> BatchItems] : n \in 0..MaxBatch}

NextBatch ==
  \/ \E patients \in BatchLists, chunkSize \in 1..MaxChunk : SaveMultiple(patients, chunkSize, 50)
  \/ \E t \in Slots \ CallSlots : SetItem(t)

SpecBatch == Init /\ [][NextBatch]_vars

\* the items of the list that fail the write validation
InvalidItems ==
  {i \in 1..batch.total :
     ~ValidPatientId(batch.patients[i][1]) \/ validatePatientData(batch.patients[i][2]) # "ok"}

\* the items counted as successful
SuccessfulItems == batch.attempted \ {batch.errors[i] : i \in 1..Len(batch.errors)}

\* loadPatientData(patientId) finds a record, the backend answering
Retrievable(patientId) ==
  Has(cache, generateKey(patientId)) \/ Has(store, generateKey(patientId))

\* C6: a saveMultiplePatients over a list with k items that fail validation,
\* the others valid and written without a backend failure, reports failed = k
\* and successful = total - k, and every item counted successful is
\* retrievable by loadPatientData.
C6_BatchCountsInvalidItems ==
  batch.result = "resolved" /\ batch.backendFailed = {} =>
    /\ batch.failed = Cardinality(InvalidItems)
    /\ batch.successful = batch.total - Cardinality(InvalidItems)
    /\ \A i \in SuccessfulItems : Retrievable(batch.patients[i][1])

\* C7: saveMultiplePatients never aborts on an item's failure: the items
\* attempted are counted successful, failed or still in flight, and when the
\* batch resolves every item of the list was attempted, successful + failed =
\* total, and errors holds exactly one entry for each failed item.
C7_BatchNeverAborts ==
  /\ batch.active =>
       /\ batch.successful + batch.failed + batch.pending = Cardinality(batch.attempted)
       /\ Len(batch.errors) = batch.failed
       /\ Cardinality({batch.errors[i] : i \in 1..Len(batch.errors)}) = batch.failed
  /\ batch.result = "resolved" =>
       /\ batch.attempted = 1..batch.total
       /\ batch.successful + batch.failed = batch.total
       /\ Cardinality(SuccessfulItems) = batch.successful

\* a batch of several chunks resolved after a failure in its first chunk
C7_Witness ==
  /\ batch.result = "resolved"
  /\ batch.total = MaxBatch /\ batch.chunkSize < batch.total
  /\ batch.failed >= 1 /\ batch.successful >= 1
  /\ batch.errors[1] = 1

(***************************************************************************)
(* Properties of Spec, continued                                           *)
(***************************************************************************)
\* the usage ratio reported to the save in slot t was above STORAGE_ERROR_THRESHOLD
OverQuota(t) == tasks[t].op = "save" /\ "log_quota_check_failed" \in tasks[t].emitted

\* C11: a savePatientData whose quota check reports a usage ratio above
\* STORAGE_ERROR_THRESHOLD is rejected with STORAGE_QUOTA_EXCEEDED at the
\* check: it never goes on to the backend and writes nothing there.
C11_OverQuotaRejected ==
  \A t \in CallSlots :
    OverQuota(t) =>
      /\ tasks[t].pc = "done" /\ tasks[t].result = "throw"
      /\ tasks[t].caught = "STORAGE_QUOTA_EXCEEDED"
      /\ "save" \notin tasks[t].emitted

\* no store holds anything under the key of patientId
Absent(patientId) ==
  /\ ~Has(store, generateKey(patientId))
  /\ ~Has(local, generateKey(patientId))
  /\ ~Has(cache, generateKey(patientId))

\* C12: loadPatientData on an id that was never saved (P2) returns null without
\* raising, whether the backend answers or fails, and leaves the id absent
\* from the backend, localStorage and the cache, so that every repetition of
\* the call finds the same state and returns null again.
C12_LoadMissReturnsNull ==
  /\ Absent(P2)
  /\ \A t \in CallSlots :
       tasks[t].op = "load" /\ tasks[t].patientId = P2 /\ tasks[t].pc = "done" =>
         tasks[t].result = "value" /\ tasks[t].value = Null

\* a load of the never-saved id has returned, the backend having answered,
\* while the backend holds another record
C12_Witness ==
  \E t \in CallSlots :
    /\ tasks[t].op = "load" /\ tasks[t].patientId = P2 /\ tasks[t].pc = "done"
    /\ tasks[t].okAt = 1 /\ tasks[t].value = Null
    /\ Has(store, generateKey(P1))

(***************************************************************************)
(* Properties of SpecCache, continued                                      *)
(***************************************************************************)
\* C13: a loadPatientData(id) with useCache not false that finds the key in
\* the cache settles at once with the cached record, moves the key to the
\* head of cacheAccessOrder keeping the order of the other keys, and sends no
\* request to the backend: the backend, localStorage and the cache entries
\* are unchanged.
C13_CacheHitTouchesNoBackend ==
  [][\A id \in CacheIds :
       Load(1, id, TRUE) /\ Has(cache, generateKey(id)) =>
         /\ tasks'[1].pc = "done" /\ tasks'[1].result = "value"
         /\ tasks'[1].value = cache[generateKey(id)]
         /\ tasks'[1].invoked = 0
         /\ Len(cacheAccessOrder') = Len(cacheAccessOrder)
         /\ cacheAccessOrder'[1] = generateKey(id)
         /\ SeqRemove(cacheAccessOrder', generateKey(id)) = SeqRemove(cacheAccessOrder, generateKey(id))
         /\ store' = store /\ local' = local /\ cache' = cache]_vars

\* a load was answered from a full cache and its key is the most recently used
C13_Witness ==
  /\ tasks[1].op = "load" /\ tasks[1].pc = "done" /\ tasks[1].invoked = 0
  /\ tasks[1].caught = "none" /\ tasks[1].value.kind = "object"
  /\ Len(cacheAccessOrder) = CACHE_SIZE
  /\ cacheAccessOrder[1] = Key(tasks[1])
  /\ recent[1] = Key(tasks[1])

(***************************************************************************)
(* Properties of Spec: the access metadata                                 *)
(***************************************************************************)
\* the step in which the getItem of the load in slot t returns a record
ReadsRecord(t) ==
  /\ tasks[t].pc = "L_get" /\ tasks'[t].okAt # 0
  /\ Has(store, Key(tasks[t]))

\* the step in which the write-back of the load in slot t lands
WritesBack(t) ==
  /\ tasks[t].pc = "L_put"
  /\ "load" \in tasks'[t].emitted

\* C14: every loadPatientData that reads an existing record from the backend
\* (cache miss or useCache false) sends the record back to the backend, and
\* the record that write stores has metadata.accessCount exactly one greater
\* than the value read, with the data fields it read.
C14_ReadCountsOneAccess ==
  [][\A t \in CallSlots :
       /\ ReadsRecord(t) =>
            /\ tasks'[t].pc = "L_put"
            /\ tasks'[t].loaded = store[Key(tasks[t])]
            /\ store' = store
       /\ WritesBack(t) =>
            /\ Has(store', Key(tasks[t]))
            /\ store'[Key(tasks[t])].metadata.accessCount = tasks[t].loaded.metadata.accessCount + 1
            /\ SameData(store'[Key(tasks[t])], tasks[t].loaded)
            /\ \A k \in DOMAIN store' \ {Key(tasks[t])} : k \in DOMAIN store /\ store'[k] = store[k]
       /\ tasks[t].pc = "L_put" /\ ~WritesBack(t) => store' = store]_vars

\* an uncached load has returned the record it read and the backend holds it
\* with one access more
C14_Witness ==
  \E t \in CallSlots :
    /\ tasks[t].op = "load" /\ tasks[t].pc = "done" /\ "load" \in tasks[t].emitted
    /\ tasks[t].value.kind = "object"
    /\ Has(store, Key(tasks[t]))
    /\ store[Key(tasks[t])].metadata.accessCount = tasks[t].value.metadata.accessCount + 1

\* the load in slot t has returned a record of the primary backend or the cache
LoadedRecord(t) ==
  /\ tasks[t].op = "load" /\ tasks[t].pc = "done"
  /\ tasks[t].value.kind = "object" /\ tasks[t].fallback = "none"

\* C15: the first loadPatientData of an id after its record was saved returns
\* the saved record with metadata.accessCount equal to 1: a load that returns
\* a record the backend has seen read at most once returns it with count 1.
C15_FirstLoadReturnsCountOne ==
  \A t \in CallSlots :
    LoadedRecord(t) /\ Get(store, Key(tasks[t])).metadata.accessCount <= 1 =>
      tasks[t].value.metadata.accessCount = 1

(***************************************************************************)
(* SpecUpdate: one caller saving, updating and deleting p1 and updating    *)
(* p2, which is never saved.                                               *)
(***************************************************************************)
\* partial records: the fields not given are undefined
Updates == {Patient(Undef, Bob, Undef, Undef), Patient(Undef, Str(<<" ">>), Undef, Undef)}

NextUpdate ==
  \/ Save(1, P1, Patient(P1, Ann, Day, Undef), FALSE, 50)
  \/ \E patientId \in {P1, P2}, updates \in Updates, backup \in BOOLEAN :
       Update(1, patientId, updates, backup)
  \/ UpdateLoaded(1)
  \/ Delete(1, P1, FALSE)
  \/ ClearCache
  \/ Return(1)
  \/ GetItem(1)
  \/ PutAccess(1)
  \/ BackupPut(1)
  \/ SetItem(1)
  \/ RemoveItem(1)

SpecUpdate == Init /\ [][NextUpdate]_vars

\* the update of the id that has no record has settled
UpdatedMissing(t) ==
  tasks[t].via = "update" /\ tasks[t].patientId = P2 /\ tasks[t].pc = "done"

DeleteResolved(t) ==
  tasks[t].op = "delete" /\ tasks[t].pc = "done" /\ tasks[t].result = "true"

\* the settled loadPatientData(patientId) called in the current state whose
\* backend read is answered
LoadAnswered(patientId) ==
  loadPatientDataGet([St(TRUE, TRUE) EXCEPT !.tasks[1] = LoadNow(patientId)], 1).tasks[1]

\* the settled loadPatientData(patientId) called in the current state whose
\* backend read is refused on every attempt, localStorage usable
LoadRefused(patientId) ==
  LET s0 == [St(FALSE, TRUE) EXCEPT !.tasks[1] = LoadNow(patientId)]
      s1 == loadPatientDataGet(s0, 1)
      s2 == loadPatientDataGet(s1, 1)
  IN  loadPatientDataGet(s2, 1).tasks[1]

ReturnsNull(tk) == tk.pc = "done" /\ tk.result = "value" /\ tk.value = Null

\* what deletePatientData leaves behind when it resolves
DeletedFromBackendAndCache(t) ==
  LET key == Key(tasks[t])
  IN  /\ ~Has(store, key)
      /\ ~Has(cache, key)
      /\ \A i \in 1..Len(cacheAccessOrder) : cacheAccessOrder[i] # key
      /\ "delete" \in tasks[t].emitted
      /\ ReturnsNull(LoadAnswered(tasks[t].patientId))

\* C17: once deletePatientData(id) has resolved, the backend holds no value
\* under the key, the cache and the recency list hold no entry for it, a
\* 'delete' event was emitted, and the loadPatientData(id) that follows returns
\* null, whether the backend answers its read or refuses it.
C17_DeletedStaysDeleted ==
  \A t \in CallSlots :
    DeleteResolved(t) =>
      /\ DeletedFromBackendAndCache(t)
      /\ ReturnsNull(LoadRefused(tasks[t].patientId))

(***************************************************************************)
(* SpecRoundTrip: records are saved, then exportPatients() and             *)
(* importPatients of what it returned.                                     *)
(***************************************************************************)
RoundTripSaves ==
  {<<P1, Patient(P1, Ann, Day, Undef)>>, <<P2, Patient(P2, Bob, Day, Undef)>>,
   <<P1, Patient(P2, Bob, Day, Undef)>>}

NextRoundTrip ==
  \/ \E p \in RoundTripSaves : ~batch.active /\ Save(1, p[1], p[2], FALSE, 50)
  \/ SetItem(1)
  \/ Return(1)
  \/ Idle(1) /\ Export
  \/ LoadAllKeys
  \/ Import(50)
  \/ \E t \in Slots \ CallSlots : GetItem(t) \/ PutAccess(t) \/ SetItem(t)

SpecRoundTrip == Init /\ [][NextRoundTrip]_vars

\* the same record but for metadata.lastAccessed
SameApartFromLastAccessed(a, b) ==
  [a EXCEPT !.metadata.lastAccessed = Undef] = [b EXCEPT !.metadata.lastAccessed = Undef]

\* the import of an export of a store that was not empty has resolved; the
\* export held every record of the store and every item of the import succeeded
RoundTripDone ==
  /\ batch.via = "import" /\ batch.result = "resolved"
  /\ batch.before # <<>>
  /\ batch.total = Len(batch.before)
  /\ batch.successful = batch.total /\ batch.backendFailed = {}

\* C18: importPatients(exportPatients()) on a store that is not empty leaves
\* what loadAllPatients returns unchanged: the same ids, and under each id the
\* same record apart from metadata.lastAccessed.
C18_RoundTripIsIdentity ==
  RoundTripDone =>
    /\ Len(Snapshot(store)) = Len(batch.before)
    /\ \A n \in 1..Len(batch.before) :
         /\ Snapshot(store)[n][1] = batch.before[n][1]
         /\ SameApartFromLastAccessed(Snapshot(store)[n][2], batch.before[n][2])

(***************************************************************************)
(* SpecChunks: one saveMultiplePatients or one loadAllPatients, in chunks, *)
(* on a backend that holds three records and may fail.                     *)
(***************************************************************************)
InitChunks ==
  /\ store = Put(Put(Put(Empty, generateKey(P1), Stored(P1, Ann, 0)),
                     generateKey(P2), Stored(P2, Bob, 0)),
                 generateKey(P3), Stored(P3, Ann, 0))
  /\ local = Empty
  /\ cache = Empty
  /\ cacheAccessOrder = <<>>
  /\ tasks = [t \in Slots |-> IdleTask]
  /\ batch = NoBatch
  /\ lastWrite = 0
  /\ recent = <<>>
  /\ SecureInit

NextChunks ==
  \/ \E patients \in BatchLists, chunkSize \in 1..MaxChunk : SaveMultiple(patients, chunkSize, 50)
  \/ \E chunkSize \in 1..MaxChunk : LoadAll(chunkSize)
  \/ LoadAllKeys
  \/ \E t \in Slots \ CallSlots : GetItem(t) \/ PutAccess(t) \/ SetItem(t)

SpecChunks == InitChunks /\ [][NextChunks]_vars

\* the items whose savePatientData or loadPatientData is in flight
InFlight == {tasks[t].item : t \in {u \in Slots \ CallSlots : ~Idle(u)}}

\* the items of the chunk the loop is at
CurrentChunk == (batch.i + 1)..Min(batch.i + batch.chunkSize, batch.total)

\* the number of chunks of the list
Chunks == (batch.total + batch.chunkSize - 1) \div batch.chunkSize

\* C19: in saveMultiplePatients and in loadAllPatients the items in flight all
\* belong to the chunk the loop is at and no item of a later chunk has been
\* started, so a chunk starts only when every item of the chunk before it has
\* settled; at most chunkSize items are in flight; one progress event is
\* emitted for each chunk done, with a processed count that never decreases
\* and is the total when the call resolves.
C19_ChunksRunOneAfterTheOther ==
  batch.active /\ batch.chunkSize > 0 =>
    /\ batch.result = "none" => InFlight \subseteq CurrentChunk
    /\ batch.result # "none" => InFlight = {}
    /\ batch.attempted \subseteq 1..Min(batch.i + batch.chunkSize, batch.total)
    /\ Cardinality({t \in Slots \ CallSlots : ~Idle(t)}) <= batch.chunkSize
    /\ Cardinality(InFlight) = batch.pending
    /\ Len(batch.progress) * batch.chunkSize = batch.i
    /\ \A n \in 1..Len(batch.progress) :
         batch.progress[n] = Min(n * batch.chunkSize, batch.total)
    /\ batch.result = "resolved" =>
         /\ Len(batch.progress) = Chunks
         /\ batch.total > 0 => batch.progress[Len(batch.progress)] = batch.total

\* a loadAllPatients over three keys in chunks of two has its second chunk in
\* flight after the progress event of the first
C19_Witness ==
  /\ batch.kind = "loadAll" /\ batch.chunkSize = 2 /\ batch.total = 3
  /\ batch.progress = <<2>> /\ InFlight = {3}

(***************************************************************************)
(* SpecSearch: records are saved, then searchPatients with a criteria, a   *)
(* limit and an offset.                                                    *)
(***************************************************************************)
\* largest limit and offset of a search
MaxPage == 2

SearchSaves ==
  {<<P1, Patient(P1, Ann, Day, Undef)>>, <<P2, Patient(P2, Ann, Day, Undef)>>,
   <<P2, Patient(P2, Bob, Day, Undef)>>}

\* {}, {name: 'ann'}, {name: 'B'}, {gender: 'f'}
Criterias ==
  {<<>>, << <<"name", Str(<<"a", "n", "n">>)>> >>, << <<"name", Str(<<"B">>)>> >>,
   << <<"gender", Str(<<"f">>)>> >>}

NextSearch ==
  \/ \E p \in SearchSaves : ~batch.active /\ Save(1, p[1], p[2], FALSE, 50)
  \/ SetItem(1)
  \/ Return(1)
  \/ \E criteria \in Criterias, limit \in 0..MaxPage, offset \in 0..MaxPage :
       Idle(1) /\ Search(criteria, limit, offset)
  \/ LoadAllKeys
  \/ \E t \in Slots \ CallSlots : GetItem(t) \/ PutAccess(t)
  \/ SearchLoaded

SpecSearch == Init /\ [][NextSearch]_vars

\* every record loadAllPatients returned that matches the criteria, in order
AllMatches ==
  LET found == SelectSeq(Patients(batch), LAMBDA e : _matchesCriteria(e[2], batch.query.criteria))
  IN  [n \in 1..Len(found) |-> SearchEntry(found[n][1], found[n][2])]

\* C20: the results of searchPatients are the matching records of the full set
\* at positions offset..offset+limit-1 (counted from 0), in the order of the
\* set: filtering comes before pagination.  limit and offset are the ones the
\* answer reports (limit is 100 when the option is 0 or not given).
C20_SearchFiltersThenPaginates ==
  batch.answer.done /\ batch.result = "resolved" =>
    /\ batch.answer.limit = (IF batch.query.limit = 0 THEN 100 ELSE batch.query.limit)
    /\ batch.answer.offset = batch.query.offset
    /\ batch.answer.results =
         [n \in 1..(Min(batch.answer.offset + batch.answer.limit, Len(AllMatches))
                    - Min(batch.answer.offset, Len(AllMatches))) |->
            AllMatches[batch.answer.offset + n]]

\* a search with offset 1 and limit 1 over two matching records answered with
\* the second of them
C20_Witness ==
  /\ batch.answer.done /\ batch.result = "resolved"
  /\ batch.query.offset = 1 /\ batch.query.limit = 1
  /\ Len(AllMatches) = 2 /\ Len(Patients(batch)) = 2
  /\ batch.answer.results = <<AllMatches[2]>>

(***************************************************************************)
(* encryption.js                                                           *)
(***************************************************************************)
\* generateKey(pin): PBKDF2 of the PIN and the salt; the same PIN and salt give
\* the same key, other ones another key
cryptoKey(pin, salt) == <<pin, salt>>

\* getDeviceSalt: the salt localStorage holds, else one made from the user agent
\* and stored (fresh)
getDeviceSalt(stored, fresh) == IF stored # 0 THEN stored ELSE fresh

\* encrypt(data, pin): AES-GCM of data under the key of pin and salt, with the
\* random iv beside it
encrypt(data, pin, salt, iv) == [iv |-> iv, key |-> cryptoKey(pin, salt), data |-> data]

\* decrypt(encryptedObj, pin): the data when the key of pin and salt is the one
\* it was encrypted under; else crypto.subtle.decrypt rejects and decrypt throws
decrypt(encryptedObj, pin, salt) ==
  IF cryptoKey(pin, salt) = encryptedObj.key
  THEN [ok |-> TRUE, data |-> encryptedObj.data]
  ELSE [ok |-> FALSE, data |-> <<>>]

(***************************************************************************)
(* SecureStorage: one call at a time; a request to the database succeeds   *)
(* or fails (ok).                                                          *)
(***************************************************************************)
storageVars == <<store, local, cache, cacheAccessOrder, tasks, batch, lastWrite, recent>>

\* longest audit log, and the salts a device can make
MaxAudit == 3
MaxSalt == 2
\* most rows of the patients table
MaxRows == 2

Salts == 1..MaxSalt
Ivs == {1, 2}

\* !this.currentPin
PinSet(pin) == pin # NoPin /\ pin # ""

SecureIdle == secureCall.op = "idle"

\* the call settles
Rejected(call, error) ==
  [call EXCEPT !.pc = "done", !.result = "reject", !.error = error, !.value = Null]
Resolved(call, value) == [call EXCEPT !.pc = "done", !.result = "resolve", !.value = value]

\* faulty variant: the method does not look at the PIN
SecureEnterNoPinCheck(op, patientId, record, pc) ==
  [NoCall EXCEPT !.op = op, !.patientId = patientId, !.record = record,
                 !.pinSet = PinSet(currentPin), !.pc = pc]

\* a method with the guard `if (!this.currentPin) throw` is called
SecureEnter(op, patientId, record, pc) ==
  LET call == [NoCall EXCEPT !.op = op, !.patientId = patientId, !.record = record,
                             !.pinSet = PinSet(currentPin)]
  IN  IF PinSet(currentPin) THEN [call EXCEPT !.pc = pc] ELSE Rejected(call, "PIN not set")

\* db.patients.put(dbRecord): dbRecord has no id, so the auto-incremented key
\* makes it a new row after the ones there
PutRow(rows, row) == Append(rows, row)

\* db.patients.where('patientId').equals(patientId).first(): the row of the
\* patientId with the lowest key, <<>> when there is none
FirstRow(rows, patientId) ==
  LET found == SelectSeq(rows, LAMBDA r : r.patientId = patientId)
  IN  IF found = <<>> THEN <<>> ELSE <<Head(found)>>

\* getAllPatientIds: the patientId of every row, latest first
getAllPatientIds(rows) == [n \in 1..Len(rows) |-> rows[Len(rows) + 1 - n].patientId]

\* SecureStorage.setCurrentPin(pin)
SetCurrentPin(pin) ==
  /\ currentPin' = pin
  /\ UNCHANGED <<deviceSalt, deviceId, dbPatients, dbAuditLogs, secureCall, lastSaved>>
  /\ UNCHANGED storageVars

\* localStorage loses 'device_salt' (the user clears the site data)
ClearDeviceSalt ==
  /\ deviceSalt # 0
  /\ deviceSalt' = 0
  /\ UNCHANGED <<currentPin, deviceId, dbPatients, dbAuditLogs, secureCall, lastSaved>>
  /\ UNCHANGED storageVars

\* savePatientData(patientId, patientRecord) up to its await of getDeviceId:
\* the record is encrypted under the PIN of the call
SecureSave(patientId, patientRecord) ==
  /\ SecureIdle
  /\ Len(dbAuditLogs) < MaxAudit
  /\ Len(dbPatients) < MaxRows
  /\ \E fresh \in Salts, iv \in Ivs :
       LET call == SecureEnter("save", patientId, patientRecord, "S_device")
           salt == getDeviceSalt(deviceSalt, fresh)
       IN  IF call.pc = "done"
           THEN secureCall' = call /\ UNCHANGED deviceSalt
           ELSE /\ deviceSalt' = salt
                /\ secureCall' = [call EXCEPT !.encrypted =
                                    <<encrypt(JSONstringify(patientRecord), currentPin, salt, iv)>>]
  /\ UNCHANGED <<currentPin, deviceId, dbPatients, dbAuditLogs, lastSaved>>
  /\ UNCHANGED storageVars

\* getDeviceId settles: the device id is read from settings, made and put when absent
SecureDeviceId ==
  /\ secureCall.pc \in {"S_device", "E_device"}
  /\ \E ok \in BOOLEAN :
       IF ok
       THEN /\ deviceId' = TRUE
            /\ secureCall' = [secureCall EXCEPT !.pc = IF @ = "S_device" THEN "S_put" ELSE "E_audit"]
       ELSE /\ secureCall' = Rejected(secureCall, "database")
            /\ UNCHANGED deviceId
  /\ UNCHANGED <<currentPin, deviceSalt, dbPatients, dbAuditLogs, lastSaved>>
  /\ UNCHANGED storageVars

\* db.patients.put(dbRecord) settles
SecurePut ==
  /\ secureCall.pc = "S_put"
  /\ \E ok \in BOOLEAN :
       IF ok
       THEN /\ dbPatients' = PutRow(dbPatients, [patientId |-> secureCall.patientId,
                                                 encryptedData |-> secureCall.encrypted[1]])
            /\ secureCall' = [secureCall EXCEPT !.pc = "S_audit", !.touched = TRUE]
       ELSE /\ secureCall' = [Rejected(secureCall, "database") EXCEPT !.touched = TRUE]
            /\ UNCHANGED dbPatients
  /\ UNCHANGED <<currentPin, deviceSalt, deviceId, dbAuditLogs, lastSaved>>
  /\ UNCHANGED storageVars

\* the action addAuditLog records for the call
AuditAction(call) ==
  CASE call.op = "save" -> "SAVE_PATIENT"
    [] call.op = "load" -> "LOAD_PATIENT"
    [] call.op = "delete" -> "DELETE_PATIENT"
    [] call.op = "export" -> "EXPORT_DATA"
    [] OTHER -> "CLEAR_DATA"

\* what the method returns after its addAuditLog
ReturnValue(call) ==
  CASE call.op \in {"load", "export"} -> call.value
    [] OTHER -> Null

\* faulty variant: the entry takes the place of the latest one
addAuditLogOverwrites(logs, action, patientId) ==
  IF logs = <<>> THEN <<[action |-> action, patientId |-> patientId]>>
  ELSE [logs EXCEPT ![Len(logs)] = [action |-> action, patientId |-> patientId]]

\* db.auditLogs.add({action, timestamp, patientId, details}): a new entry after
\* the ones there
addAuditLog(logs, action, patientId) ==
  Append(logs, [action |-> action, patientId |-> patientId])

\* addAuditLog settles: db.auditLogs.add appends an entry, its failure is only
\* logged; the method returns
SecureAudit ==
  /\ secureCall.pc \in {"S_audit", "L_audit", "D_audit", "E_audit", "C_audit"}
  /\ \E ok \in BOOLEAN :
       dbAuditLogs' = IF ok THEN addAuditLog(dbAuditLogs, AuditAction(secureCall), secureCall.patientId)
                      ELSE dbAuditLogs
  /\ secureCall' = [Resolved(secureCall, ReturnValue(secureCall)) EXCEPT !.touched = TRUE]
  /\ lastSaved' = IF secureCall.op = "save"
                  THEN [lastSaved EXCEPT ![secureCall.patientId] = secureCall.record]
                  ELSE lastSaved
  /\ UNCHANGED <<currentPin, deviceSalt, deviceId, dbPatients>>
  /\ UNCHANGED storageVars

\* loadPatientData(patientId) up to its query
SecureLoad(patientId) ==
  /\ SecureIdle
  /\ Len(dbAuditLogs) < MaxAudit
  /\ secureCall' = SecureEnter("load", patientId, Null, "L_get")
  /\ UNCHANGED <<currentPin, deviceSalt, deviceId, dbPatients, dbAuditLogs, lastSaved>>
  /\ UNCHANGED storageVars

\* the query of loadPatientData settles: no row, or the row is decrypted under
\* the PIN there is now and parsed
SecureGet ==
  /\ secureCall.pc = "L_get"
  /\ \E ok \in BOOLEAN, fresh \in Salts :
       LET found == FirstRow(dbPatients, secureCall.patientId)
           salt == getDeviceSalt(deviceSalt, fresh)
           call == [secureCall EXCEPT !.touched = TRUE]
       IN  IF ~ok THEN secureCall' = Rejected(call, "database") /\ UNCHANGED deviceSalt
           ELSE IF found = <<>> THEN secureCall' = Resolved(call, Null) /\ UNCHANGED deviceSalt
           ELSE LET d == decrypt(found[1].encryptedData, currentPin, salt)
                IN  /\ deviceSalt' = salt
                    /\ secureCall' = IF d.ok
                                     THEN [call EXCEPT !.pc = "L_audit", !.value = JSONparse(d.data)]
                                     ELSE Rejected(call, "Decryption failed")
  /\ UNCHANGED <<currentPin, deviceId, dbPatients, dbAuditLogs, lastSaved>>
  /\ UNCHANGED storageVars

\* deletePatientData(patientId) up to its delete
SecureDelete(patientId) ==
  /\ SecureIdle
  /\ Len(dbAuditLogs) < MaxAudit
  /\ secureCall' = SecureEnter("delete", patientId, Null, "D_del")
  /\ UNCHANGED <<currentPin, deviceSalt, deviceId, dbPatients, dbAuditLogs, lastSaved>>
  /\ UNCHANGED storageVars

\* db.patients.where('patientId').equals(patientId).delete() settles
SecureDel ==
  /\ secureCall.pc = "D_del"
  /\ \E ok \in BOOLEAN :
       IF ok
       THEN /\ dbPatients' = SelectSeq(dbPatients, LAMBDA r : r.patientId # secureCall.patientId)
            /\ lastSaved' = [lastSaved EXCEPT ![secureCall.patientId] = Null]
            /\ secureCall' = [secureCall EXCEPT !.pc = "D_audit", !.touched = TRUE]
       ELSE /\ secureCall' = [Rejected(secureCall, "database") EXCEPT !.touched = TRUE]
            /\ UNCHANGED <<dbPatients, lastSaved>>
  /\ UNCHANGED <<currentPin, deviceSalt, deviceId, dbAuditLogs>>
  /\ UNCHANGED storageVars

\* exportAllData() up to its db.patients.toArray()
SecureExport ==
  /\ SecureIdle
  /\ Len(dbAuditLogs) < MaxAudit
  /\ secureCall' = SecureEnter("export", "", Null, "E_patients")
  /\ UNCHANGED <<currentPin, deviceSalt, deviceId, dbPatients, dbAuditLogs, lastSaved>>
  /\ UNCHANGED storageVars

\* the records exportAllData decrypts: the rows that do not decrypt are left out
DecryptedRecords(rows, pin, salt) ==
  LET good == SelectSeq(rows, LAMBDA r : decrypt(r.encryptedData, pin, salt).ok)
  IN  [n \in 1..Len(good) |->
         [patientId |-> good[n].patientId,
          data |-> JSONparse(decrypt(good[n].encryptedData, pin, salt).data)]]

\* db.patients.toArray() and db.auditLogs.toArray() settle, and the rows are
\* decrypted under the PIN there is now
SecureExportRead ==
  /\ secureCall.pc = "E_patients"
  /\ \E ok \in BOOLEAN, fresh \in Salts :
       LET salt == getDeviceSalt(deviceSalt, fresh)
           call == [secureCall EXCEPT !.touched = TRUE]
       IN  IF ~ok THEN secureCall' = Rejected(call, "database") /\ UNCHANGED deviceSalt
           ELSE /\ deviceSalt' = IF dbPatients = <<>> THEN deviceSalt ELSE salt
                /\ secureCall' = [call EXCEPT !.pc = "E_device",
                                              !.value = DecryptedRecords(dbPatients, currentPin, salt)]
  /\ UNCHANGED <<currentPin, deviceId, dbPatients, dbAuditLogs, lastSaved>>
  /\ UNCHANGED storageVars

\* clearAllData() up to its db.patients.clear(); it does not ask for the PIN
SecureClear ==
  /\ SecureIdle
  /\ secureCall' = [NoCall EXCEPT !.op = "clear", !.pc = "C_patients", !.pinSet = PinSet(currentPin)]
  /\ UNCHANGED <<currentPin, deviceSalt, deviceId, dbPatients, dbAuditLogs, lastSaved>>
  /\ UNCHANGED storageVars

\* db.patients.clear() settles
SecureClearPatients ==
  /\ secureCall.pc = "C_patients"
  /\ \E ok \in BOOLEAN :
       IF ok
       THEN /\ dbPatients' = <<>>
            /\ lastSaved' = [id \in SecureIds |-> Null]
            /\ secureCall' = [secureCall EXCEPT !.pc = "C_logs", !.touched = TRUE]
       ELSE /\ secureCall' = [Rejected(secureCall, "database") EXCEPT !.touched = TRUE]
            /\ UNCHANGED <<dbPatients, lastSaved>>
  /\ UNCHANGED <<currentPin, deviceSalt, deviceId, dbAuditLogs>>
  /\ UNCHANGED storageVars

\* db.auditLogs.clear() settles
SecureClearLogs ==
  /\ secureCall.pc = "C_logs"
  /\ \E ok \in BOOLEAN :
       IF ok
       THEN /\ dbAuditLogs' = <<>>
            /\ secureCall' = [secureCall EXCEPT !.pc = "C_audit"]
       ELSE /\ secureCall' = Rejected(secureCall, "database")
            /\ UNCHANGED dbAuditLogs
  /\ UNCHANGED <<currentPin, deviceSalt, deviceId, dbPatients, lastSaved>>
  /\ UNCHANGED storageVars

\* the caller takes the outcome of the call
SecureReturn ==
  /\ secureCall.pc = "done"
  /\ secureCall' = NoCall
  /\ UNCHANGED <<currentPin, deviceSalt, deviceId, dbPatients, dbAuditLogs, lastSaved>>
  /\ UNCHANGED storageVars

\* the PINs of the users, and the records they save
SecurePins == {"1234", "0000"}
SecureRecords == {Patient(P1, Ann, Day, Undef), Patient(P1, Bob, Day, Undef)}

NextSecure ==
  \/ \E pin \in {"1234", NoPin, ""} : SetCurrentPin(pin)
  \/ \E patientId \in SecureIds : SecureSave(patientId, Patient(P1, Ann, Day, Undef))
  \/ \E patientId \in SecureIds : SecureLoad(patientId)
  \/ \E patientId \in SecureIds : SecureDelete(patientId)
  \/ SecureExport
  \/ SecureClear
  \/ SecureDeviceId
  \/ SecurePut
  \/ SecureGet
  \/ SecureDel
  \/ SecureExportRead
  \/ SecureClearPatients
  \/ SecureClearLogs
  \/ SecureAudit
  \/ SecureReturn

SpecSecure == Init /\ [][NextSecure]_vars

\* saves and loads of one patient, under changing PINs and salts
NextSecureLoad ==
  \/ \E pin \in SecurePins \cup {NoPin} : SetCurrentPin(pin)
  \/ ClearDeviceSalt
  \/ \E patientRecord \in SecureRecords : SecureSave("a", patientRecord)
  \/ SecureLoad("a")
  \/ SecureDeviceId
  \/ SecurePut
  \/ SecureGet
  \/ SecureAudit
  \/ SecureReturn

SpecSecureLoad == Init /\ [][NextSecureLoad]_vars

\* the rows of the patients table that carry the patientId
RowsOf(patientId) == {n \in 1..Len(dbPatients) : dbPatients[n].patientId = patientId}

\* C21: in every reachable state the patients table holds at most one row per
\* patientId, also after savePatientData for an id that already has a row
C21_OneRowPerPatient ==
  \A patientId \in SecureIds : Cardinality(RowsOf(patientId)) <= 1

\* the query of a load is answered by the database
LoadQueried ==
  /\ secureCall.pc = "L_get"
  /\ secureCall'.pc # "L_get"
  /\ secureCall'.error # "database"

\* row n of the patients table was saved under the PIN and the salt there are now
SavedUnderPin(n) ==
  /\ deviceSalt # 0
  /\ dbPatients[n].encryptedData.key = cryptoKey(currentPin, deviceSalt)

\* C22: with the salt unchanged, loadPatientData under the PIN p of a record
\* saved under p returns that record as JSON.parse(JSON.stringify(r)) gives it
C22_LoadReturnsRecordSavedUnderPin ==
  [][LoadQueried =>
       \A n \in RowsOf(secureCall.patientId) :
         SavedUnderPin(n) =>
           /\ secureCall'.pc = "L_audit"
           /\ secureCall'.value = JSONparse(dbPatients[n].encryptedData.data)]_vars

\* the log after the step starts with the whole log before it
AuditLogKept ==
  /\ Len(dbAuditLogs') >= Len(dbAuditLogs)
  /\ SubSeq(dbAuditLogs', 1, Len(dbAuditLogs)) = dbAuditLogs

\* C23: the audit log is append-only: every step keeps the entries there are, in
\* their order and unchanged, and adds at most one after them; the one exception
\* is the db.auditLogs.clear() of clearAllData, which leaves no entry at all, and
\* save, load, delete and export never take that exception
C23_AuditLogIsAppendOnly ==
  [][/\ \/ AuditLogKept /\ Len(dbAuditLogs') <= Len(dbAuditLogs) + 1
        \/ secureCall.op = "clear" /\ secureCall.pc = "C_logs" /\ dbAuditLogs' = <<>>
     /\ secureCall.op \in {"save", "load", "delete", "export"} => AuditLogKept]_vars

\* clearAllData has emptied a log and logged itself, and a save and a delete
\* have added their entries after it
C23_Witness ==
  /\ Len(dbAuditLogs) = 3
  /\ dbAuditLogs[1].action = "CLEAR_DATA"
  /\ dbAuditLogs[2].action = "SAVE_PATIENT"
  /\ dbAuditLogs[3].action = "DELETE_PATIENT"

\* the methods that ask for the PIN
PinGuarded == {"save", "load", "delete", "export"}

\* C25: a savePatientData, loadPatientData, deletePatientData or exportAllData
\* called while no PIN is set rejects with 'PIN not set', and from its call on it
\* makes no request to the patients table or the audit log and both stay as
\* they are
C25_NoPinNoAccess ==
  [][(secureCall'.op \in PinGuarded /\ ~secureCall'.pinSet) =>
       /\ secureCall'.result = "reject"
       /\ secureCall'.error = "PIN not set"
       /\ ~secureCall'.touched
       /\ dbPatients' = dbPatients
       /\ dbAuditLogs' = dbAuditLogs]_vars

\* after a logout (rows were saved under a PIN, the PIN is null now) a load was
\* called and has rejected
C25_Witness ==
  /\ currentPin = NoPin
  /\ dbPatients # <<>>
  /\ dbAuditLogs # <<>>
  /\ secureCall.op = "load"
  /\ ~secureCall.pinSet
  /\ secureCall.result = "reject"

\* every save of the patientId so far was made under the PIN and the salt there
\* are now, and one of them has resolved
SavedUnderSamePin(patientId) ==
  /\ lastSaved[patientId] # Null
  /\ \A n \in RowsOf(patientId) : SavedUnderPin(n)

\* C26: after any sequence of savePatientData calls on one id under the same
\* PIN, loadPatientData(id) returns the record passed to the most recent save
C26_LoadReturnsLatestSave ==
  [][(LoadQueried /\ SavedUnderSamePin(secureCall.patientId)) =>
       /\ secureCall'.pc = "L_audit"
       /\ secureCall'.value = JSONparse(JSONstringify(lastSaved[secureCall.patientId]))]_vars

(***************************************************************************)
(* deleteAllPatients with and without options.confirmed                    *)
(***************************************************************************)
NextDeleteAll ==
  \/ \E id \in {P1, P2}, name \in {Ann, Bob} : Save(1, id, Patient(id, name, Day, Undef), FALSE, 50)
  \/ \E confirmed \in BOOLEAN : DeleteAll(1, confirmed)
  \/ Return(1)
  \/ SetItem(1)
  \/ DeleteAllKeys(1)
  \/ DeleteAllRemove(1)

SpecDeleteAll == Init /\ [][NextDeleteAll]_vars

\* C24: deleteAllPatients called without options.confirmed rejects, and from the
\* call on the backend (records and backups), localStorage, the cache and its
\* recency list are as they were
C24_UnconfirmedDeleteAllDoesNothing ==
  [][(tasks'[1].op = "deleteAll" /\ ~tasks'[1].confirmed) =>
       /\ tasks'[1].result = "throw"
       /\ store' = store
       /\ local' = local
       /\ cache' = cache
       /\ cacheAccessOrder' = cacheAccessOrder]_vars

\* an unconfirmed deleteAllPatients has rejected while the backend and the cache
\* hold two records
C24_Witness ==
  /\ tasks[1].op = "deleteAll"
  /\ ~tasks[1].confirmed
  /\ tasks[1].result = "throw"
  /\ Cardinality({k \in DOMAIN store : IsPatientKey(k)}) = 2
  /\ Cardinality(DOMAIN cache) = 2

(***************************************************************************)
(* SpecLoadRace: one savePatientData or deletePatientData of p1 (caller 1) *)
(* and one loadPatientData of p1 (caller 2), their awaited steps in any    *)
(* order, on a backend that holds an older record of p1 or none.           *)
(***************************************************************************)
NextLoadRace ==
  \/ Save(1, P1, RaceData(1), FALSE, 50)
  \/ Delete(1, P1, FALSE)
  \/ \E useCache \in BOOLEAN : Load(2, P1, useCache)
  \/ \E t \in CallSlots : GetItem(t)
  \/ \E t \in CallSlots : PutAccess(t)
  \/ \E t \in CallSlots : SetItem(t)
  \/ \E t \in CallSlots : RemoveItem(t)

SpecLoadRace == InitRace /\ [][NextLoadRace]_vars

\* no load of p1 is in flight
LoadsFinished == tasks[2].pc \in {"idle", "done"}

\* the save of caller 1 has resolved true after its write to the backend
SaveWritten ==
  /\ tasks[1].op = "save"
  /\ tasks[1].pc = "done"
  /\ tasks[1].result = "true"
  /\ "save" \in tasks[1].emitted

\* C27: once a savePatientData(id, r) has resolved true (its record written to
\* the backend) and every load of id has finished, the backend record and the
\* cache entry of id carry the data fields of r
C27_LoadNeverRevertsSave ==
  (SaveWritten /\ LoadsFinished) =>
    /\ Has(store, generateKey(P1))
    /\ SameData(store[generateKey(P1)], RaceData(1))
    /\ Has(cache, generateKey(P1))
    /\ SameData(cache[generateKey(P1)], RaceData(1))

\* the delete of caller 1 has resolved
DeleteDone ==
  /\ tasks[1].op = "delete"
  /\ tasks[1].pc = "done"
  /\ tasks[1].result = "true"

\* C28: once a deletePatientData(id) has resolved and every load of id has
\* finished, no save of id having been issued, the backend holds no value for id
\* and the cache no entry
C28_LoadNeverResurrectsDeleted ==
  (DeleteDone /\ LoadsFinished) =>
    /\ ~Has(store, generateKey(P1))
    /\ ~Has(cache, generateKey(P1))

\* C30: the total that searchPatients returns is the number of all the records
\* loadAllPatients returned that match the criteria, whatever limit and offset
C30_TotalCountsAllMatches ==
  batch.answer.done /\ batch.result = "resolved" =>
    batch.answer.total = Len(AllMatches)

\* C29: in every reachable state the record stored under a backend key
\* 'patient-K' has the id K
C29_StoredIdIsKeyId ==
  \A key \in DOMAIN store :
    IsPatientKey(key) => store[key].id = PatientIdOf(key)
====
